---- MODULE Spec2Model ----
(***************************************************************************)
(* Model of the job services of the PCA extractor:                         *)
(*   backend/services/extraction_service.py  (ExtractionService)           *)
(*   backend/services/benchmark_service.py   (BenchmarkService)            *)
(* together with the helpers of src/extract_pca_llm_simple.py they call.   *)
(*                                                                         *)
(* A behaviour exercises one service instance (svc, fixed by Init).  The   *)
(* threads are: the callers of run_extraction / run_benchmark, the caller  *)
(* of reset, one reader inside get_status, and the worker thread of each   *)
(* admitted job.  Every read or write of a shared attribute is one step.   *)
(*                                                                         *)
(* The model backend is outside the program: a call of call_gemini_json /  *)
(* llm_fix_to_json either raises or returns a text, chosen by the          *)
(* environment.                                                            *)
(***************************************************************************)
EXTENDS Integers, Sequences, FiniteSets, TLC

\* ------------------------------------------------------------------ bounds
NumCallers == 2
MaxJobs == 2
MaxChunks == 2
ConcChunks == 1
ReadChunks == 1
SeqJobs == 1

Callers == 1..NumCallers
Jobs == 1..MaxJobs
Services == {"extraction", "benchmark"}

\* --------------------------------------------------- rows and JSON values
\* A value produced by json.loads.  t is the Python type of the value; n the
\* number when t = "num"; has tells whether the Python expression
\* `"rows" in v` is true (a key of a dict, an element of a list, a substring
\* of a str); empty whether the container or string is empty; rk is the
\* type of v["rows"] for a dict that has the key; rows its elements when it
\* is a list.
JsonValue(t, n, has, empty, rk, rows) ==
    [t |-> t, n |-> n, has |-> has, empty |-> empty, rk |-> rk, rows |-> rows]

\* An element of a rows list.  isobj: the element is a JSON object (dict);
\* pca_number is [k, v] with k the type of the field ("int", "none",
\* "missing", "str", "bool"); source_pages is a page range <<start, end>>,
\* <<0, 0>> when the key is absent; pca_identifier is 0 when absent.
Row(isobj, pk, pv, sp, id) ==
    [isobj |-> isobj, pca_number |-> [k |-> pk, v |-> pv],
     source_pages |-> sp, pca_identifier |-> id]

NoPages == <<0, 0>>
RowA == Row(TRUE, "int", 5, NoPages, 0)
RowB == Row(TRUE, "none", 0, <<9, 9>>, 7)
RowC == Row(TRUE, "int", 60, NoPages, 0)
RowScalar == Row(FALSE, "missing", 0, NoPages, 0)
\* "pca_number": true (a Python bool), and a row that brings its own identifier.
RowT == Row(TRUE, "bool", 1, NoPages, 3)
RowD == Row(TRUE, "int", 12, NoPages, 9)

None == JsonValue("null", 0, FALSE, TRUE, "none", <<>>)
JZero == JsonValue("num", 0, FALSE, TRUE, "none", <<>>)
JNum == JsonValue("num", 5, FALSE, FALSE, "none", <<>>)
JStr == JsonValue("str", 0, FALSE, FALSE, "none", <<>>)
JStrRows == JsonValue("str", 0, TRUE, FALSE, "none", <<>>)
JList == JsonValue("list", 0, FALSE, FALSE, "none", <<>>)
JListRows == JsonValue("list", 0, TRUE, FALSE, "none", <<>>)
JEmptyObj == JsonValue("dict", 0, FALSE, TRUE, "none", <<>>)
JObjNoRows == JsonValue("dict", 0, FALSE, FALSE, "none", <<>>)
JObjRowsNum == JsonValue("dict", 0, TRUE, FALSE, "num", <<>>)
JRows(rows) == JsonValue("dict", 0, TRUE, FALSE, "list", rows)

\* Python truth value of a JSON value (`if obj and ...`).
Truthy(v) ==
    CASE v.t = "null" -> FALSE
      [] v.t = "num" -> v.n # 0
      [] OTHER -> ~v.empty

\* --------------------------------------------------------- reply texts
\* A reply text is described by its shape and by the JSON value it carries:
\*   "json"     the text is exactly the serialisation of val
\*   "fenced"   prose around a ```json fenced block holding the object val
\*   "embedded" prose around the object val, no fence
\*   "garbage"  no JSON anywhere
Text(shape, val) == [shape |-> shape, val |-> val]

\* try_parse_json: strict parse, else first ```json fenced object, else the
\* greedy {...} substring, else None.  json.loads of the text "null" is the
\* Python None as well.
try_parse_json(text) ==
    CASE text.shape = "json" -> text.val
      [] text.shape = "fenced" /\ text.val.t = "dict" -> text.val
      [] text.shape = "embedded" /\ text.val.t = "dict" -> text.val
      [] OTHER -> None

\* The replies the environment may give to a model call.
GoodText == Text("json", JRows(<<RowA>>))
ConcTexts == {GoodText, Text("garbage", None), Text("json", JNum)}
ReadTexts == {GoodText, Text("garbage", None)}

ReplyTexts ==
    { Text("json", JRows(<<RowA>>)),
      Text("json", JRows(<<RowB, RowC>>)),
      Text("json", JRows(<<RowT, RowB, RowD>>)),
      Text("json", JRows(<<>>)),
      Text("fenced", JRows(<<RowA>>)),
      Text("garbage", None),
      Text("json", None),
      Text("json", JNum),
      Text("json", JStrRows),
      Text("json", JList),
      Text("json", JEmptyObj),
      Text("json", JObjRowsNum),
      Text("json", JRows(<<RowScalar>>)) }

\* ----------------------------------------------- row handling of a chunk
\* The chunk's page range f"{start}-{end}" (ch["start"], ch["end"]).  Chunk
\* idx of the model covers the single page idx.
PageRange(idx) == <<idx, idx>>

\* r.setdefault("source_pages", f"{start}-{end}")
SetDefaultPages(r, idx) ==
    IF r.source_pages = NoPages THEN [r EXCEPT !.source_pages = PageRange(idx)]
    ELSE r

RECURSIVE MapDefault(_, _)
MapDefault(rows, idx) ==
    IF rows = <<>> THEN <<>>
    ELSE <<SetDefaultPages(Head(rows), idx)>> \o MapDefault(Tail(rows), idx)

\* The outcome [err, rows] of
\*     rows = []
\*     if obj and "rows" in obj and isinstance(obj["rows"], list):
\*         rows = obj["rows"]
\*         for r in rows: r.setdefault("source_pages", ...)
\* err is the message of the exception the statement raises, "" if none.
Outcome(err, rows) == [err |-> err, rows |-> rows]

ChunkRows(obj, idx) ==
    CASE ~Truthy(obj) -> Outcome("", <<>>)
      [] Truthy(obj) /\ obj.t = "num" ->
            Outcome("TypeError: argument of type 'int' is not iterable", <<>>)
      [] Truthy(obj) /\ obj.t \in {"str", "list"} /\ obj.has ->
            Outcome("TypeError: indices must be integers", <<>>)
      [] Truthy(obj) /\ obj.t = "dict" /\ obj.has /\ obj.rk = "list" ->
            IF \E i \in 1..Len(obj.rows) : ~obj.rows[i].isobj
            THEN Outcome("AttributeError: object has no attribute 'setdefault'", <<>>)
            ELSE Outcome("", MapDefault(obj.rows, idx))
      [] OTHER -> Outcome("", <<>>)

\* ----------------------------------------------------- final row handling
\* r.get("pca_number") is not None and isinstance(.., int) and 1 <= .. <= 59
\* (a Python bool is an int).
MinPca == 1
MaxPca == 59
ValidPca(r) ==
    /\ r.pca_number.k \in {"int", "bool"}
    /\ MinPca <= r.pca_number.v
    /\ r.pca_number.v <= MaxPca

RECURSIVE FilterRows(_)
FilterRows(rows) ==
    IF rows = <<>> THEN <<>>
    ELSE IF ValidPca(Head(rows)) THEN <<Head(rows)>> \o FilterRows(Tail(rows))
    ELSE FilterRows(Tail(rows))

\* A numbering that keeps the identifiers the rows bring (setdefault).
AddIdentifiersKeep(rows) ==
    [i \in 1..Len(rows) |->
        IF rows[i].pca_identifier = 0 THEN [rows[i] EXCEPT !.pca_identifier = i]
        ELSE rows[i]]

\* for i, r in enumerate(final_rows, start=1): r["pca_identifier"] = i
AddIdentifiers(rows) ==
    [i \in 1..Len(rows) |-> [rows[i] EXCEPT !.pca_identifier = i]]

\* final_rows before the filter:
\*     if compiled and "rows" in compiled: final_rows = compiled["rows"]
\*     else: final_rows = all_rows  # Fallback to raw rows
\* for a compiled value on which these statements do not raise.
SelectedRows(compiled, all_rows) ==
    IF Truthy(compiled) /\ compiled.t = "dict" /\ compiled.has
    THEN compiled.rows
    ELSE all_rows

\* A selection without the fallback: the rows of a compiled object, else none.
FinalRowsNoFallback(compiled, all_rows) ==
    IF /\ compiled.t = "dict" /\ compiled.has /\ compiled.rk = "list"
       /\ \A i \in 1..Len(compiled.rows) : compiled.rows[i].isobj
    THEN Outcome("", AddIdentifiers(FilterRows(compiled.rows)))
    ELSE Outcome("", <<>>)

\* The outcome [err, rows] of the selection, filter and numbering of the
\* final rows:
\*     if compiled and "rows" in compiled: final_rows = compiled["rows"]
\*     else: final_rows = all_rows
\*     before_filter = len(final_rows); final_rows = [r for r in ... ]
FinalRows(compiled, all_rows) ==
    CASE ~Truthy(compiled) -> Outcome("", AddIdentifiers(FilterRows(all_rows)))
      [] Truthy(compiled) /\ compiled.t = "num" ->
            Outcome("TypeError: argument of type 'int' is not iterable", <<>>)
      [] Truthy(compiled) /\ compiled.t \in {"str", "list"} /\ compiled.has ->
            Outcome("TypeError: indices must be integers", <<>>)
      [] Truthy(compiled) /\ compiled.t = "dict" /\ compiled.has ->
            IF compiled.rk # "list"
            THEN Outcome("TypeError: object of type 'int' has no len()", <<>>)
            ELSE IF \E i \in 1..Len(compiled.rows) : ~compiled.rows[i].isobj
            THEN Outcome("AttributeError: object has no attribute 'get'", <<>>)
            ELSE Outcome("", AddIdentifiers(FilterRows(compiled.rows)))
      [] OTHER -> Outcome("", AddIdentifiers(FilterRows(all_rows)))

\* --------------------------------------------------------------- progress
\* progress_percent is a float; the model keeps it as an exact fraction
\* <<numerator, denominator>>.
Pct(x) == <<x, 1>>
Leq(p, q) == p[1] * q[2] <= q[1] * p[2]

\* A chunk progress that forgets the base of its band.
ChunkProgressNoBase(base, range, idx, n) == <<(idx - 1) * range, n>>

\* base_progress + (idx - 1) / len(chunks) * chunk_progress_range
ChunkProgress(base, range, idx, n) == <<base * n + (idx - 1) * range, n>>

\* ------------------------------------------------------- worker programs
\* The body of _run_extraction_sync / _run_benchmark_sync as a sequence of
\* instructions, one per access to shared state or to the outside.  op is
\* the kind of instruction, f the status field a write instruction assigns,
\* v its operand, ln the source line.
Ins(op, f, v, ln) == [op |-> op, f |-> f, v |-> v, ln |-> ln]

Step(text, ln) == Ins("set", "current_step", <<text, 0>>, ln)
Progress(x, ln) == Ins("set", "progress_percent", Pct(x), ln)

ExtractionSetup ==
    << Step("Setting up extraction...", 166),
       Progress(5, 167),
       Ins("mkexp", "experiment_dir", 0, 171),
       Step("Loading PCA definitions...", 188),
       Progress(10, 189),
       Step("Extracting text from PDF...", 195),
       Progress(15, 196),
       Ins("extract", "", 0, 198),
       Step("Chunking pages...", 202),
       Progress(20, 203),
       Ins("chunk", "total_chunks", 0, 205) >>

ExtractionChunk ==
    << Ins("chunk_step", "current_step", "Processing chunk", 219),
       Ins("chunk_progress", "progress_percent", <<20, 60>>, 220),
       Ins("chunk_step", "current_step", "Calling Gemini API...", 231),
       Ins("call", "", 0, 235),
       Ins("fixnote", "current_step", "Fixing JSON...", 247),
       Ins("fix", "", 0, 248),
       Ins("rows", "", 0, 257),
       Ins("saveraw", "", 0, 270),
       Ins("append_result", "chunk_results", 0, 280),
       Ins("set_completed", "completed_chunks", 0, 281),
       Ins("set_pcas_raw", "total_pcas", 0, 282),
       Ins("chunk_step", "current_step", "complete", 284) >>

ExtractionCompile ==
    << Step("Compiling and deduplicating results...", 287),
       Progress(85, 288),
       Ins("call", "", 0, 297),
       Ins("fix", "", 0, 303),
       Ins("final", "", 0, 306),
       Step("Saving CSV...", 325),
       Progress(95, 326),
       Ins("csv", "", 0, 337) >>

ExtractionDone ==
    << Ins("set", "status", "completed", 343),
       Step("Complete!", 344),
       Progress(100, 345),
       Ins("set_pcas_final", "total_pcas", 0, 346),
       Ins("set", "completed_at", TRUE, 347) >>

ExtractionExcept ==
    << Ins("set", "status", "error", 360),
       Ins("set_error", "error", 0, 361),
       Step("Error", 362),
       Ins("set", "completed_at", TRUE, 363) >>

BenchmarkSetup ==
    << Ins("gt", "ground_truth_count", 0, 199),
       Step("Setting up extraction...", 222),
       Progress(5, 223),
       Ins("mkexp", "experiment_dir", 0, 226),
       Step("Loading PCA definitions...", 249),
       Progress(8, 250),
       Step("Extracting text from PDF...", 254),
       Progress(10, 255),
       Ins("extract", "", 0, 256),
       Step("Chunking pages...", 259),
       Progress(15, 260),
       Ins("chunk", "total_chunks", 0, 261) >>

BenchmarkChunk ==
    << Ins("chunk_step", "current_step", "calling Gemini...", 274),
       Ins("chunk_progress", "progress_percent", <<15, 55>>, 275),
       Ins("call", "", 0, 291),
       Ins("fix", "", 0, 299),
       Ins("rows", "", 0, 303),
       Ins("saveraw", "", 0, 314),
       Ins("append_result", "chunk_results", 0, 324),
       Ins("set_completed", "completed_chunks", 0, 325),
       Ins("set_pcas_raw", "total_pcas", 0, 326),
       Ins("chunk_step", "current_step", "complete", 328) >>

BenchmarkCompile ==
    << Step("Compiling results...", 333),
       Progress(75, 334),
       Ins("call", "", 0, 342),
       Ins("fix", "", 0, 349),
       Ins("final", "", 0, 353),
       Ins("set_pcas_final", "total_pcas", 0, 370),
       Step("Saving CSV...", 373),
       Progress(85, 374),
       Ins("csv", "", 0, 385),
       Step("Running evaluation...", 391),
       Progress(90, 392),
       Ins("eval", "metrics", 0, 396) >>

BenchmarkDone ==
    << Ins("set", "status", "completed", 410),
       Step("Complete!", 412),
       Progress(100, 413),
       Ins("set", "completed_at", TRUE, 414) >>

BenchmarkExcept ==
    << Ins("set", "status", "error", 421),
       Ins("set_error", "error", 0, 422),
       Step("Error", 423),
       Ins("set", "completed_at", TRUE, 424) >>

\* try: <setup>; for ...: <chunk>; <compile>; <done>
\* except Exception: <except>
\* finally: with self._lock: self._running = False
Assemble(setup, chunk, compile, done, except) ==
    setup \o <<Ins("loop", "", 0, 0)>> \o chunk \o <<Ins("endloop", "", 0, 0)>>
    \o compile \o done \o except
    \o <<Ins("finally_lock", "", 0, 0), Ins("finally_clear", "", 0, 0)>>

ExtractionProgram ==
    Assemble(ExtractionSetup, ExtractionChunk, ExtractionCompile,
             ExtractionDone, ExtractionExcept)
BenchmarkProgram ==
    Assemble(BenchmarkSetup, BenchmarkChunk, BenchmarkCompile,
             BenchmarkDone, BenchmarkExcept)

Program(s) == IF s = "extraction" THEN ExtractionProgram ELSE BenchmarkProgram

\* Positions in the program: the head of the for loop, the first statement
\* after the loop, the first completion write, the except handler, the
\* finally clause.
LoopAt(s) ==
    IF s = "extraction" THEN Len(ExtractionSetup) + 1 ELSE Len(BenchmarkSetup) + 1
CompileAt(s) ==
    LoopAt(s) + 2 + (IF s = "extraction" THEN Len(ExtractionChunk) ELSE Len(BenchmarkChunk))
DoneAt(s) ==
    CompileAt(s) + (IF s = "extraction" THEN Len(ExtractionCompile) ELSE Len(BenchmarkCompile))
ExceptAt(s) ==
    DoneAt(s) + (IF s = "extraction" THEN Len(ExtractionDone) ELSE Len(BenchmarkDone))
FinallyAt(s) ==
    ExceptAt(s) + (IF s = "extraction" THEN Len(ExtractionExcept) ELSE Len(BenchmarkExcept))

\* The instructions that assign a field of self._status.
WriteOps ==
    {"set", "chunk_step", "fixnote", "chunk_progress", "append_result",
     "set_completed", "set_pcas_raw", "set_pcas_final", "set_error"}

\* The statements executed only when the first parse returned None.
FixOps == {"fixnote", "fix"}

\* ------------------------------------------------------------------ state
VARIABLES
    svc,        \* the service this behaviour exercises
    lock,       \* self._lock: 0 when free, else the thread holding it
    running,    \* self._running
    status,     \* self._status (NoStatus for None)
    next_job,   \* the job id the next start call brings
    c,          \* the threads calling run_extraction / run_benchmark
    w,          \* the worker thread of each job
    rs,         \* the thread calling reset
    rd,         \* the thread inside get_status
    seen,       \* the values self._status had during the current get_status
    ndirs,      \* number of exp_NNN directories under OUTPUT_DIR
    fs,         \* the artifacts in each experiment directory
    ck,         \* the frame of a chunk_pages_by_words call
    ev,         \* the frame of a calculate_metrics call
    gd,         \* the threads inside get_next_experiment_dir and OUTPUT_DIR
    pl,         \* PipelineService: the pipeline thread and the cancel requests
    pj          \* the frame of a try_parse_json call on a text

\* The frames of the helper functions, which the service threads' steps
\* leave alone.
aux == <<ck, ev, gd, pl, pj>>

vars == <<svc, lock, running, status, next_job, c, w, rs, rd, seen, ndirs, fs,
          ck, ev, gd, pl, pj>>

\* ExtractionStatus / BenchmarkStatus.  total_pcas stands for extracted_pcas
\* in BenchmarkStatus; metrics tells whether the metrics dict is set;
\* experiment_dir is the number of the exp_NNN directory, 0 for None; error
\* is "" for None; completed_at tells whether the time stamp is set.
\* started_at is set at construction and never written again.
StatusRecord(job, st, step) ==
    [job_id |-> job, status |-> st, current_step |-> step,
     progress_percent |-> Pct(0), total_chunks |-> 0, completed_chunks |-> 0,
     chunk_results |-> <<>>, total_pcas |-> 0, metrics |-> FALSE,
     ground_truth_count |-> 0, experiment_dir |-> 0, error |-> "",
     completed_at |-> FALSE]

NoStatus == StatusRecord(0, "idle", <<"", 0>>)

\* ExtractionStatus(job_id=job_id, status="running",
\*                  current_step="Initializing...", started_at=...)
NewStatus(job) == StatusRecord(job, "running", <<"Initializing...", 0>>)

IsNone(st) == st.job_id = 0

\* A local frame of a worker thread.  pc = 0: the thread does not exist.
\* calls, step_calls, first_null and accepted record what the thread did:
\* the model calls issued so far, those issued for the current chunk or
\* compile step, whether the first parse of the step returned None, and the
\* rows each finished chunk contributed.
NoWorker ==
    [pc |-> 0, idx |-> 0, n |-> 0, all_rows |-> <<>>, rows |-> <<>>,
     obj |-> None, final_rows |-> <<>>, exc |-> "", exp |-> 0,
     calls |-> 0, step_calls |-> 0, first_null |-> FALSE, accepted |-> <<>>]

NoFile == [exists |-> FALSE, rows |-> <<>>]
File(rows) == [exists |-> TRUE, rows |-> rows]
EmptyDir == [raw |-> NoFile, final_json |-> NoFile, csv |-> NoFile]

CallerTid(t) == t
WorkerTid(j) == NumCallers + j
ResetTid == NumCallers + MaxJobs + 1

\* A lock that never blocks.
LockFreeAlways(l) == TRUE

\* threading.Lock: acquirable when no thread holds it.
LockFree(l) == l = 0

\* No helper function is being called.
NoChunker == [pc |-> "off"]
NoEval == [pc |-> "off"]
NoDirs == [pc |-> "off"]
NoPipeline == [pc |-> "off"]
NoParse == [pc |-> "off"]

\* The service after construction.
ServiceInit ==
    /\ svc \in Services
    /\ lock = 0
    /\ running = FALSE
    /\ status = NoStatus
    /\ next_job = 1
    /\ c = [t \in Callers |-> [pc |-> "idle", job |-> 0, ret |-> "none"]]
    /\ w = [j \in Jobs |-> NoWorker]
    /\ rs = [pc |-> "idle", last |-> "none"]
    /\ rd = [pc |-> 0, snap |-> NoStatus, res |-> "none"]
    /\ seen = {}
    /\ ndirs = 0
    /\ fs = [d \in Jobs |-> EmptyDir]

Init ==
    /\ ServiceInit
    /\ ck = NoChunker
    /\ ev = NoEval
    /\ gd = NoDirs
    /\ pl = NoPipeline
    /\ pj = NoParse

\* The fields of the dict in the order get_status reads them.
ExtractionFields ==
    << "job_id", "status", "current_step", "progress_percent", "total_chunks",
       "completed_chunks", "chunk_results", "total_pcas", "experiment_dir",
       "error", "completed_at" >>
BenchmarkFields ==
    << "job_id", "status", "current_step", "progress_percent", "total_chunks",
       "completed_chunks", "chunk_results", "total_pcas", "metrics",
       "ground_truth_count", "experiment_dir", "error", "completed_at" >>
Fields(s) == IF s = "extraction" THEN ExtractionFields ELSE BenchmarkFields

\* The fields the model follows through a get_status call: snap keeps what
\* the reader read of them and seen what the status object held in them.
Tracked == {"job_id", "status", "progress_percent", "error", "completed_at"}
View(st) == [f \in Tracked |-> st[f]]

\* An assignment to self._status or to one of its fields.
SetStatus(new) ==
    /\ status' = new
    /\ seen' = IF rd.pc \in 1..Len(Fields(svc)) THEN seen \cup {View(new)} ELSE seen

\* --------------------------------------- run_extraction / run_benchmark
\* with self._lock:  (entered with the job id the caller brings)
RunAcquire(t, last) ==
    /\ c[t].pc = "idle"
    /\ next_job <= last
    /\ LockFree(lock)
    /\ lock' = CallerTid(t)
    /\ c' = [c EXCEPT ![t] = [pc |-> "check", job |-> next_job, ret |-> "none"]]
    /\ next_job' = next_job + 1
    /\ UNCHANGED <<aux, svc, running, status, w, rs, rd, seen, ndirs, fs>>

\* An admission that does not look at the running flag.
RunCheckBlind(t) ==
    /\ c[t].pc = "check"
    /\ c' = [c EXCEPT ![t].pc = "set"]
    /\ UNCHANGED <<aux, svc, lock, running, status, next_job, w, rs, rd, seen, ndirs, fs>>

\* if self._running: return False
RunCheck(t) ==
    /\ c[t].pc = "check"
    /\ IF running
       THEN /\ c' = [c EXCEPT ![t].pc = "idle", ![t].ret = "False"]
            /\ lock' = 0
       ELSE /\ c' = [c EXCEPT ![t].pc = "set"]
            /\ lock' = lock
    /\ UNCHANGED <<aux, svc, running, status, next_job, w, rs, rd, seen, ndirs, fs>>

\* self._running = True, and the end of the with block
RunSet(t) ==
    /\ c[t].pc = "set"
    /\ running' = TRUE
    /\ lock' = 0
    /\ c' = [c EXCEPT ![t].pc = "init"]
    /\ UNCHANGED <<aux, svc, status, next_job, w, rs, rd, seen, ndirs, fs>>

\* self._status = ExtractionStatus(...)
RunInit(t) ==
    /\ c[t].pc = "init"
    /\ SetStatus(NewStatus(c[t].job))
    /\ c' = [c EXCEPT ![t].pc = "start"]
    /\ UNCHANGED <<aux, svc, lock, running, next_job, w, rs, rd, ndirs, fs>>

\* thread.start(); return True
RunStart(t) ==
    /\ c[t].pc = "start"
    /\ w' = [w EXCEPT ![c[t].job] = [NoWorker EXCEPT !.pc = 1]]
    /\ c' = [c EXCEPT ![t].pc = "idle", ![t].ret = "True"]
    /\ UNCHANGED <<aux, svc, lock, running, status, next_job, rs, rd, seen, ndirs, fs>>

\* ------------------------------------------------------------------ reset
\* with self._lock:   (ExtractionService only)
ResetAcquire ==
    /\ svc = "extraction"
    /\ rs.pc = "idle"
    /\ LockFree(lock)
    /\ lock' = ResetTid
    /\ rs' = [rs EXCEPT !.pc = "locked"]
    /\ UNCHANGED <<aux, svc, running, status, next_job, c, w, rd, seen, ndirs, fs>>

\* A reset that does not look at the running flag.
ResetAlways(r) == TRUE

\* if not self._running: self._status = None
ResetAllowed(r) == ~r

ResetApply ==
    /\ rs.pc = "locked"
    /\ IF ResetAllowed(running)
       THEN /\ SetStatus(NoStatus)
            /\ rs' = [pc |-> "idle", last |-> "cleared"]
       ELSE /\ UNCHANGED <<status, seen>>
            /\ rs' = [pc |-> "idle", last |-> "refused"]
    /\ lock' = 0
    /\ UNCHANGED <<aux, svc, running, next_job, c, w, rd, ndirs, fs>>

\* ------------------------------------------------------------- get_status
\* if self._status is None: return {"status": "idle"}
ReadStart ==
    /\ rd.pc = 0
    /\ IF IsNone(status)
       THEN /\ rd' = [pc |-> Len(Fields(svc)) + 1, snap |-> NoStatus, res |-> "idle"]
            /\ seen' = {View(status)}
       ELSE /\ rd' = [pc |-> 1, snap |-> NoStatus, res |-> "none"]
            /\ seen' = {View(status)}
    /\ UNCHANGED <<aux, svc, lock, running, status, next_job, c, w, rs, ndirs, fs>>

\* one `self._status.<field>` of the dict display.  When self._status is
\* None by now the attribute access raises AttributeError.
ReadField ==
    /\ rd.pc \in 1..Len(Fields(svc))
    /\ LET f == Fields(svc)[rd.pc] IN
       IF IsNone(status)
       THEN rd' = [rd EXCEPT !.pc = Len(Fields(svc)) + 1, !.res = "crash"]
       ELSE rd' = [pc |-> rd.pc + 1,
                   snap |-> IF f \in Tracked THEN [rd.snap EXCEPT ![f] = status[f]]
                            ELSE rd.snap,
                   res |-> IF rd.pc = Len(Fields(svc)) THEN "dict" ELSE "none"]
    /\ UNCHANGED <<aux, svc, lock, running, status, next_job, c, w, rs, seen, ndirs, fs>>

\* get_status returns the dict (or the exception) to its caller.
ReadReturn ==
    /\ rd.pc = Len(Fields(svc)) + 1
    /\ rd' = [pc |-> 0, snap |-> NoStatus, res |-> "none"]
    /\ seen' = {}
    /\ UNCHANGED <<aux, svc, lock, running, status, next_job, c, w, rs, ndirs, fs>>

\* ---------------------------------------------------------- worker thread
At(j) == Program(svc)[w[j].pc]
Alive(j) == w[j].pc > 0

\* Completion writes that run on into the except handler.
SuccFallthrough(s, pc) == pc + 1

\* The position after the instruction at pc: the completion writes are
\* followed by the finally clause, not by the except handler.
Succ(s, pc) == IF pc = ExceptAt(s) - 1 THEN FinallyAt(s) ELSE pc + 1

\* An exception that reaches the finally clause without being handled.
RaisedUnhandled(wj, msg) == [wj EXCEPT !.exc = msg, !.pc = FinallyAt(svc)]

\* An exception with message msg raised by the instruction at wj.pc: inside
\* the try block it is caught by `except Exception as e`; raised by the
\* handler itself it leaves through the finally clause.
Raised(wj, msg) ==
    IF wj.pc < ExceptAt(svc)
    THEN [wj EXCEPT !.exc = msg, !.pc = ExceptAt(svc)]
    ELSE [wj EXCEPT !.pc = FinallyAt(svc)]

\* The value a write instruction assigns.
WriteValue(ins, wj) ==
    CASE ins.op = "set" -> ins.v
      [] ins.op \in {"chunk_step", "fixnote"} -> <<ins.v, wj.idx>>
      [] ins.op = "chunk_progress" ->
            ChunkProgress(ins.v[1], ins.v[2], wj.idx, wj.n)
      [] ins.op = "append_result" ->
            Append(status.chunk_results,
                   [chunk_num |-> wj.idx, pca_count |-> Len(wj.rows)])
      [] ins.op = "set_completed" -> wj.idx
      [] ins.op = "set_pcas_raw" -> Len(wj.all_rows)
      [] ins.op = "set_pcas_final" -> Len(wj.final_rows)
      [] ins.op = "set_error" -> wj.exc

\* self._status.<field> = <value>
WriteStatus(j) ==
    /\ Alive(j)
    /\ At(j).op \in WriteOps
    /\ IF IsNone(status)
       THEN /\ w' = [w EXCEPT ![j] = Raised(w[j], "AttributeError: 'NoneType' object")]
            /\ UNCHANGED <<status, seen>>
       ELSE /\ SetStatus([status EXCEPT ![At(j).f] = WriteValue(At(j), w[j])])
            /\ w' = [w EXCEPT ![j].pc = Succ(svc, w[j].pc)]
    /\ UNCHANGED <<aux, svc, lock, running, next_job, c, rs, rd, ndirs, fs>>

\* BenchmarkService: the project's files are looked up and the ground truth
\* rows counted; raises ValueError when a file is missing.
GtCounts == {0, 2}
FindProject(j) ==
    /\ Alive(j)
    /\ At(j).op = "gt"
    /\ \/ /\ w' = [w EXCEPT ![j] = Raised(w[j], "ValueError: No ERIS PDF found")]
          /\ UNCHANGED <<status, seen>>
       \/ /\ ~IsNone(status)
          /\ \E g \in GtCounts :
                SetStatus([status EXCEPT !.ground_truth_count = g])
          /\ w' = [w EXCEPT ![j].pc = w[j].pc + 1]
    /\ UNCHANGED <<aux, svc, lock, running, next_job, c, rs, rd, ndirs, fs>>

\* exp_dir = get_next_experiment_dir(OUTPUT_DIR)
\* self._status.experiment_dir = str(exp_dir)
get_next_experiment_dir(n) == n + 1

MakeExperimentDir(j) ==
    /\ Alive(j)
    /\ At(j).op = "mkexp"
    /\ ~IsNone(status)
    /\ LET d == get_next_experiment_dir(ndirs) IN
       /\ ndirs' = d
       /\ SetStatus([status EXCEPT !.experiment_dir = d])
       /\ w' = [w EXCEPT ![j].exp = d, ![j].pc = w[j].pc + 1]
    /\ UNCHANGED <<aux, svc, lock, running, next_job, c, rs, rd, fs>>

\* pages = extract_page_texts(pdf_path): fitz.open raises on a file that is
\* no PDF.
ExtractPages(j) ==
    /\ Alive(j)
    /\ At(j).op = "extract"
    /\ \/ w' = [w EXCEPT ![j] = Raised(w[j], "FileDataError: cannot open document")]
       \/ w' = [w EXCEPT ![j].pc = w[j].pc + 1]
    /\ UNCHANGED <<aux, svc, lock, running, status, next_job, c, rs, rd, seen, ndirs, fs>>

\* chunks = chunk_pages_by_words(pages, chunk_size)
\* self._status.total_chunks = len(chunks); all_rows = []
ChunkPages(j, maxn) ==
    /\ Alive(j)
    /\ At(j).op = "chunk"
    /\ ~IsNone(status)
    /\ \E n \in 0..maxn :
          /\ SetStatus([status EXCEPT !.total_chunks = n])
          /\ w' = [w EXCEPT ![j].n = n, ![j].idx = 0, ![j].all_rows = <<>>,
                            ![j].pc = w[j].pc + 1]
    /\ UNCHANGED <<aux, svc, lock, running, next_job, c, rs, rd, ndirs, fs>>

\* for idx, ch in enumerate(chunks, start=1):
LoopHead(j) ==
    /\ Alive(j)
    /\ At(j).op = "loop"
    /\ IF w[j].idx < w[j].n
       THEN w' = [w EXCEPT ![j].idx = w[j].idx + 1, ![j].pc = w[j].pc + 1]
       ELSE w' = [w EXCEPT ![j].pc = CompileAt(svc)]
    /\ UNCHANGED <<aux, svc, lock, running, status, next_job, c, rs, rd, seen, ndirs, fs>>

LoopEnd(j) ==
    /\ Alive(j)
    /\ At(j).op = "endloop"
    /\ w' = [w EXCEPT ![j].pc = LoopAt(svc)]
    /\ UNCHANGED <<aux, svc, lock, running, status, next_job, c, rs, rd, seen, ndirs, fs>>

\* A repair that is attempted after every call.
AfterCallAlwaysFix(s, pc, obj) == pc + 1

\* The position after a model call whose reply parsed to obj: the repair
\* statements are entered only `if obj is None`.
AfterCall(s, pc, obj) ==
    IF obj = None THEN pc + 1
    ELSE IF Program(s)[pc + 1].op \notin FixOps THEN pc + 1
    ELSE IF Program(s)[pc + 2].op \notin FixOps THEN pc + 2
    ELSE pc + 3

\* raw = call_gemini_json(prompt, model, temperature, api_key=api_key)
\* obj = try_parse_json(raw)
\* The call raises (any exception of the gateway, or of binding its
\* arguments) or returns a text.
CallModel(j, texts) ==
    /\ Alive(j)
    /\ At(j).op = "call"
    /\ \/ w' = [w EXCEPT ![j] = [Raised(w[j], "call failed") EXCEPT
                                    !.calls = w[j].calls + 1, !.step_calls = 1]]
       \/ \E text \in texts :
             LET obj == try_parse_json(text) IN
             w' = [w EXCEPT ![j].obj = obj,
                            ![j].calls = w[j].calls + 1,
                            ![j].step_calls = 1,
                            ![j].first_null = (obj = None),
                            ![j].pc = AfterCall(svc, w[j].pc, obj)]
    /\ UNCHANGED <<aux, svc, lock, running, status, next_job, c, rs, rd, seen, ndirs, fs>>

\* fixed = llm_fix_to_json(raw, "gemini", model, temperature, api_key=api_key)
\* obj = try_parse_json(fixed)
RepairJson(j, texts) ==
    /\ Alive(j)
    /\ At(j).op = "fix"
    /\ \/ w' = [w EXCEPT ![j] = [Raised(w[j], "call failed") EXCEPT
                                    !.calls = w[j].calls + 1,
                                    !.step_calls = w[j].step_calls + 1]]
       \/ \E text \in texts :
             w' = [w EXCEPT ![j].obj = try_parse_json(text),
                            ![j].calls = w[j].calls + 1,
                            ![j].step_calls = w[j].step_calls + 1,
                            ![j].pc = w[j].pc + 1]
    /\ UNCHANGED <<aux, svc, lock, running, status, next_job, c, rs, rd, seen, ndirs, fs>>

\* rows = [] ... all_rows.extend(rows)
CollectRows(j) ==
    /\ Alive(j)
    /\ At(j).op = "rows"
    /\ LET out == ChunkRows(w[j].obj, w[j].idx) IN
       IF out.err # ""
       THEN w' = [w EXCEPT ![j] = Raised(w[j], out.err)]
       ELSE w' = [w EXCEPT ![j].rows = out.rows,
                           ![j].all_rows = w[j].all_rows \o out.rows,
                           ![j].accepted = Append(w[j].accepted, out.rows),
                           ![j].pc = w[j].pc + 1]
    /\ UNCHANGED <<aux, svc, lock, running, status, next_job, c, rs, rd, seen, ndirs, fs>>

\* A chunk step that does not write the raw-rows artifact.
SaveRawSkipped(j) ==
    /\ Alive(j)
    /\ At(j).op = "saveraw"
    /\ w' = [w EXCEPT ![j].pc = w[j].pc + 1]
    /\ UNCHANGED <<aux, svc, lock, running, status, next_job, c, rs, rd, seen, ndirs, fs>>

\* save_json(out_final / "all_rows_raw.json", all_rows)
SaveRaw(j) ==
    /\ Alive(j)
    /\ At(j).op = "saveraw"
    /\ fs' = [fs EXCEPT ![w[j].exp].raw = File(w[j].all_rows)]
    /\ w' = [w EXCEPT ![j].pc = w[j].pc + 1]
    /\ UNCHANGED <<aux, svc, lock, running, status, next_job, c, rs, rd, seen, ndirs>>

\* final_rows = ...; filter; identifiers;
\* save_json(out_final / "final_rows_compiled.json", final_rows)
Finalize(j) ==
    /\ Alive(j)
    /\ At(j).op = "final"
    /\ LET out == FinalRows(w[j].obj, w[j].all_rows) IN
       IF out.err # ""
       THEN /\ w' = [w EXCEPT ![j] = Raised(w[j], out.err)]
            /\ fs' = fs
       ELSE /\ w' = [w EXCEPT ![j].final_rows = out.rows, ![j].pc = w[j].pc + 1]
            /\ fs' = [fs EXCEPT ![w[j].exp].final_json = File(out.rows)]
    /\ UNCHANGED <<aux, svc, lock, running, status, next_job, c, rs, rd, seen, ndirs>>

\* with csv_path.open("w") as f: header and one line per final row
WriteCsv(j) ==
    /\ Alive(j)
    /\ At(j).op = "csv"
    /\ fs' = [fs EXCEPT ![w[j].exp].csv = File(w[j].final_rows)]
    /\ w' = [w EXCEPT ![j].pc = w[j].pc + 1]
    /\ UNCHANGED <<aux, svc, lock, running, status, next_job, c, rs, rd, seen, ndirs>>

\* eval_results = evaluate_experiment(exp_dir, gt_path, sources=['ERIS'])
\* self._status.metrics = {...}
\* evaluate_experiment raises on a ground truth file it cannot use.
Evaluate(j) ==
    /\ Alive(j)
    /\ At(j).op = "eval"
    /\ \/ /\ w' = [w EXCEPT ![j] = Raised(w[j], "KeyError: 'Address'")]
          /\ UNCHANGED <<status, seen>>
       \/ /\ ~IsNone(status)
          /\ SetStatus([status EXCEPT !.metrics = TRUE])
          /\ w' = [w EXCEPT ![j].pc = w[j].pc + 1]
    /\ UNCHANGED <<aux, svc, lock, running, next_job, c, rs, rd, ndirs, fs>>

\* finally: with self._lock:
FinallyLock(j) ==
    /\ Alive(j)
    /\ At(j).op = "finally_lock"
    /\ LockFree(lock)
    /\ lock' = WorkerTid(j)
    /\ w' = [w EXCEPT ![j].pc = w[j].pc + 1]
    /\ UNCHANGED <<aux, svc, running, status, next_job, c, rs, rd, seen, ndirs, fs>>

\* A finally clause that leaves the running flag set.
FinallyClearKeeps(j) ==
    /\ Alive(j)
    /\ At(j).op = "finally_clear"
    /\ lock' = 0
    /\ w' = [w EXCEPT ![j] = NoWorker]
    /\ UNCHANGED <<aux, svc, running, status, next_job, c, rs, rd, seen, ndirs, fs>>

\* self._running = False; the lock is released and the thread ends
FinallyClear(j) ==
    /\ Alive(j)
    /\ At(j).op = "finally_clear"
    /\ running' = FALSE
    /\ lock' = 0
    /\ w' = [w EXCEPT ![j] = NoWorker]
    /\ UNCHANGED <<aux, svc, status, next_job, c, rs, rd, seen, ndirs, fs>>

\* The steps of the threads that start jobs, of the thread that resets and
\* of the thread that reads the status.
CallerStep(t, last) ==
    \/ RunAcquire(t, last)
    \/ RunCheck(t)
    \/ RunSet(t)
    \/ RunInit(t)
    \/ RunStart(t)

ResetStep ==
    \/ ResetAcquire
    \/ ResetApply

ReadStep ==
    \/ ReadStart
    \/ ReadField
    \/ ReadReturn

\* A step of the worker thread of job j, on a document of at most maxn
\* chunks and with a model backend that answers with one of texts.
WorkerStep(j, maxn, texts) ==
    \/ WriteStatus(j)
    \/ FindProject(j)
    \/ MakeExperimentDir(j)
    \/ ExtractPages(j)
    \/ ChunkPages(j, maxn)
    \/ LoopHead(j)
    \/ LoopEnd(j)
    \/ CallModel(j, texts)
    \/ RepairJson(j, texts)
    \/ CollectRows(j)
    \/ SaveRaw(j)
    \/ Finalize(j)
    \/ WriteCsv(j)
    \/ Evaluate(j)
    \/ FinallyLock(j)
    \/ FinallyClear(j)

\* The service under concurrent start calls and resets.
Next ==
    \/ \E t \in Callers : CallerStep(t, MaxJobs)
    \/ ResetStep
    \/ \E j \in Jobs : WorkerStep(j, ConcChunks, ConcTexts)

Spec == Init /\ [][Next]_vars

\* The service polled by get_status while jobs run one after the other.
NextRead ==
    \/ CallerStep(1, SeqJobs)
    \/ ResetStep
    \/ ReadStep
    \/ \E j \in Jobs : WorkerStep(j, ReadChunks, ReadTexts)

SpecRead == Init /\ [][NextRead]_vars

\* Jobs run one after the other on documents of up to MaxChunks chunks,
\* with every kind of reply.
NextJob ==
    \/ CallerStep(1, SeqJobs)
    \/ \E j \in Jobs : WorkerStep(j, MaxChunks, ReplyTexts)

SpecJob == Init /\ [][NextJob]_vars

\* The concurrent service with the scheduling Python gives its threads: a
\* thread that can run does run (a start call inside run_extraction goes on
\* to its return, a worker goes on to its end, given that every model call
\* and file operation returns or raises), and a worker waiting for the lock
\* gets it once it is free often enough.
Fairness ==
    /\ \A t \in Callers : WF_vars(RunCheck(t) \/ RunSet(t) \/ RunInit(t) \/ RunStart(t))
    /\ WF_vars(ResetApply)
    /\ \A j \in Jobs : WF_vars(WorkerStep(j, ConcChunks, ConcTexts))
    /\ \A j \in Jobs : SF_vars(FinallyLock(j))

SpecFair == Spec /\ Fairness

\* ---------------------------------------------------- chunk_pages_by_words
\* A page is {"page_num": .., "text": ..}; the model keeps of the text its
\* word count, word_count(p["text"] or "").  extract_page_texts numbers the
\* pages 1, 2, ... in order.
MaxPages == 4
MaxWords == 3
MaxLimit == 3

Page(num, wc) == [page_num |-> num, wc |-> wc]

PageSeqs ==
    UNION { { [i \in 1..n |-> Page(i, cnt[i])] : cnt \in [1..n -> 0..MaxWords] }
            : n \in 0..MaxPages }

Chunk(start, end, pages) == [start |-> start, end |-> end, pages |-> pages]

\* chunks = []; buf = []; wcount = 0; start = None  (start: 0 for None)
ChunkerFrame(pages, word_limit) ==
    [pc |-> "loop", pages |-> pages, word_limit |-> word_limit, i |-> 1,
     chunks |-> <<>>, buf |-> <<>>, wcount |-> 0, start |-> 0]

\* A test that looks at the page where it should look at the sum.
FlushNeededPageOnly(wcount, wc, word_limit) == wcount > 0 /\ wc > word_limit

\* if wcount > 0 and (wcount + wc) > word_limit:
FlushNeeded(wcount, wc, word_limit) == wcount > 0 /\ (wcount + wc) > word_limit

\* One iteration of `for p in pages:`.
ChunkerPage ==
    /\ ck.pc = "loop"
    /\ ck.i <= Len(ck.pages)
    /\ LET p == ck.pages[ck.i]
           start == IF ck.start = 0 THEN p.page_num ELSE ck.start
       IN IF FlushNeeded(ck.wcount, p.wc, ck.word_limit)
          THEN ck' = [ck EXCEPT
                        !.chunks = Append(ck.chunks,
                                     Chunk(start, ck.buf[Len(ck.buf)].page_num, ck.buf)),
                        !.buf = <<p>>,
                        !.wcount = p.wc,
                        !.start = p.page_num,
                        !.i = ck.i + 1]
          ELSE ck' = [ck EXCEPT
                        !.buf = Append(ck.buf, p),
                        !.wcount = ck.wcount + p.wc,
                        !.start = start,
                        !.i = ck.i + 1]
    /\ UNCHANGED <<svc, lock, running, status, next_job, c, w, rs, rd, seen,
                   ndirs, fs, ev, gd, pl, pj>>

\* A return that forgets the pages still in the buffer.
ChunkerReturnNoTail ==
    /\ ck.pc = "loop"
    /\ ck.i > Len(ck.pages)
    /\ ck' = [ck EXCEPT !.pc = "done"]
    /\ UNCHANGED <<svc, lock, running, status, next_job, c, w, rs, rd, seen,
                   ndirs, fs, ev, gd, pl, pj>>

\* if buf: chunks.append(...);  return chunks
ChunkerReturn ==
    /\ ck.pc = "loop"
    /\ ck.i > Len(ck.pages)
    /\ IF ck.buf # <<>>
       THEN ck' = [ck EXCEPT
                     !.chunks = Append(ck.chunks,
                                  Chunk(ck.start, ck.buf[Len(ck.buf)].page_num, ck.buf)),
                     !.pc = "done"]
       ELSE ck' = [ck EXCEPT !.pc = "done"]
    /\ UNCHANGED <<svc, lock, running, status, next_job, c, w, rs, rd, seen,
                   ndirs, fs, ev, gd, pl, pj>>

\* chunk_pages_by_words called on any page sequence with any positive limit.
InitChunk ==
    /\ ServiceInit
    /\ svc = "extraction"
    /\ ck \in { ChunkerFrame(pages, l) : pages \in PageSeqs, l \in 1..MaxLimit }
    /\ ev = NoEval
    /\ gd = NoDirs
    /\ pl = NoPipeline
    /\ pj = NoParse

NextChunk ==
    \/ ChunkerPage
    \/ ChunkerReturn

SpecChunk == InitChunk /\ [][NextChunk]_vars

\* ------------------------------------------------------------- evaluate.py
\* An address text.  num is the leading street number ("" when the text
\* does not start with one), name the two words of the street name and
\* type, rest what follows them (a city, or a units designation); style
\* tells how the text is written: the
\* "messy" style has lower case letters, commas, periods and repeated
\* blanks.  A missing value (NaN) is the text with all parts empty.
Address(num, name, rest, style) ==
    [num |-> num, name |-> name, rest |-> rest, style |-> style]

NoAddress == Address("", "", "", "plain")

\* re.sub(r'\bUNIT\b', '', addr): the word UNIT is taken out of the text
\* (UNITS is another word and stays).
StripUnitWord(rest) ==
    CASE rest = "UNIT 1" -> "1"
      [] rest = "UNIT 2" -> "2"
      [] OTHER -> rest

\* normalize_address: upper case, one blank between words, no commas and
\* periods, no word UNIT; "" for NaN.
normalize_address(a) ==
    [a EXCEPT !.style = "plain", !.rest = StripUnitWord(a.rest)]

\* extract_street_address: the street number and the (up to two) words
\* after it when the normalized text starts with a number, else the whole
\* normalized text.
extract_street_address(a) ==
    LET n == normalize_address(a) IN
    IF n.num # "" THEN [n EXCEPT !.rest = ""] ELSE n

\* extract_street_number
extract_street_number(a) == normalize_address(a).num

\* The unit numbers of the designations re.findall finds in the normalized
\* text, through parse_unit_range ("5 TO 3" is an empty range), and whether
\* it finds any designation.
HasUnits(a) ==
    normalize_address(a).rest \in
        {"UNIT 1", "UNIT 2", "UNITS 1", "UNITS 2", "UNITS 2-3", "UNITS 5 TO 3"}
UnitNumbers(a) ==
    CASE normalize_address(a).rest \in {"UNIT 1", "UNITS 1"} -> {1}
      [] normalize_address(a).rest \in {"UNIT 2", "UNITS 2"} -> {2}
      [] normalize_address(a).rest = "UNITS 2-3" -> {2, 3}
      [] OTHER -> {}

\* addresses_compatible
addresses_compatible(a1, a2) ==
    LET n1 == extract_street_number(a1)
        n2 == extract_street_number(a2)
    IN IF n1 # "" /\ n2 # "" /\ n1 # n2 THEN FALSE
       ELSE IF ~HasUnits(a1) \/ ~HasUnits(a2) THEN TRUE
       ELSE IF UnitNumbers(a1) # {} /\ UnitNumbers(a2) # {}
       THEN UnitNumbers(a1) \cap UnitNumbers(a2) # {}
       ELSE TRUE

\* The words of a text as written, and their number.
AddressWords(a) == {<<word, a.style>> : word \in {a.num, a.name, a.rest} \ {""}}
WordCount(a) == Cardinality(AddressWords(a))

\* Scores are kept in tenths: 10 is 1.0.
\* SequenceMatcher(None, s1, s2).ratio() is 2 * M / T for M matching
\* characters out of T: 1.0 exactly when the strings are equal (also when
\* both are empty).  For unequal strings the model takes the same quotient
\* over words, below 1.0.
SequenceRatio(s1, s2) ==
    IF s1 = s2 THEN 10
    ELSE LET t == WordCount(s1) + WordCount(s2)
             m == Cardinality(AddressWords(s1) \cap AddressWords(s2))
             q == (20 * m) \div t
         IN IF q > 9 THEN 9 ELSE q

\* address_containment_score: 0.0 when a text is empty; 1.0 when one
\* contains the other; else the share of the shorter text's words found in
\* the longer one when it is at least 0.8.
address_containment_score(s1, s2) ==
    IF s1 = NoAddress \/ s2 = NoAddress THEN 0
    ELSE LET shorter == IF WordCount(s1) <= WordCount(s2) THEN s1 ELSE s2
             longer == IF WordCount(s1) > WordCount(s2) THEN s1 ELSE s2
             overlap == Cardinality(AddressWords(shorter) \cap AddressWords(longer))
             ratio == (10 * overlap) \div WordCount(shorter)
         IN IF ratio >= 8 THEN ratio ELSE 0

Max(a, b) == IF a >= b THEN a ELSE b

\* A PCA text: fmt is how the number is written ("digits": "5"; "hash":
\* "#5: Gasoline"; "pca": "PCA 5"; "lead": "5 - Gasoline"; "words":
\* "Gasoline"; "nan": missing), num its digits.
PcaText(fmt, num) == [fmt |-> fmt, num |-> num]

\* extract_pca_number
extract_pca_number(t) ==
    IF t.fmt \in {"digits", "hash", "pca", "lead"} THEN t.num ELSE ""

\* A row of the ground truth table ('Address', 'Potentially Contaminating
\* Activity (PCA)') or of the extracted table ('address', 'pca_number').
TableRow(addr, pca) == [address |-> addr, pca |-> pca]

Main12 == Address("12", "MAIN", "", "plain")

GtRows ==
    { TableRow([Main12 EXCEPT !.style = "messy"], PcaText("hash", "5")),
      TableRow([Main12 EXCEPT !.rest = "UNITS 1"], PcaText("hash", "5")),
      TableRow([Main12 EXCEPT !.rest = "UNIT 1"], PcaText("hash", "5")),
      TableRow(Main12, PcaText("words", "")),
      TableRow(Address("", "HUGH", "", "plain"), PcaText("pca", "7")),
      TableRow(NoAddress, PcaText("hash", "05")) }

ExtRows ==
    { TableRow(Main12, PcaText("digits", "5")),
      TableRow([Main12 EXCEPT !.rest = "UNITS 2"], PcaText("digits", "5")),
      TableRow([Main12 EXCEPT !.rest = "UNIT 2"], PcaText("digits", "5")),
      TableRow([Main12 EXCEPT !.rest = "UNITS 2-3"], PcaText("digits", "5")),
      TableRow(Main12, PcaText("digits", "7")),
      TableRow(Address("14", "MAIN", "", "plain"), PcaText("lead", "5")),
      TableRow(NoAddress, PcaText("digits", "05")) }

MaxGt == 2
MaxExt == 2
Thresholds == {0, 5, 8, 10}

Tables(rows, n) == UNION { [1..k -> rows] : k \in 0..n }

\* A test that forgets the rows already matched.
ConsumedNever(idx, matched_indices) == FALSE

\* if idx in matched_indices: continue
Consumed(idx, matched_indices) == idx \in matched_indices

\* A gate that lets every pair of numbers through.
PcaGateOpen(gt_pca, ext_pca) == TRUE

\* if gt_pca != ext_pca: continue
PcaGate(gt_pca, ext_pca) == gt_pca = ext_pca

\* A score taken on the address texts as they are written.
EffectiveScoreRaw(gt_address, ext_address) ==
    Max(SequenceRatio(gt_address, ext_address),
        address_containment_score(gt_address, ext_address))

\* gt_addr = extract_street_address(..); ext_addr = extract_street_address(..)
\* effective_score = max(addr_sim, containment)
EffectiveScore(gt_address, ext_address) ==
    LET gt_addr == extract_street_address(gt_address)
        ext_addr == extract_street_address(ext_address)
    IN Max(SequenceRatio(gt_addr, ext_addr),
           address_containment_score(gt_addr, ext_addr))

\* The loop of find_matching_row from extracted row idx on, with the best
\* row so far: <<best_idx, best_score>> at its end (best_idx 0 for -1).
RECURSIVE ScanRows(_, _, _, _, _)
ScanRows(gt_row, extracted, matched_indices, idx, best) ==
    IF idx > Len(extracted) THEN best
    ELSE LET ext_row == extracted[idx]
             score == EffectiveScore(gt_row.address, ext_row.address)
             take == /\ ~Consumed(idx, matched_indices)
                     /\ PcaGate(extract_pca_number(gt_row.pca),
                                extract_pca_number(ext_row.pca))
                     /\ addresses_compatible(gt_row.address, ext_row.address)
                     /\ score > best[2]
         IN ScanRows(gt_row, extracted, matched_indices, idx + 1,
                     IF take THEN <<idx, score>> ELSE best)

\* find_matching_row: <<index, score>>, <<0, 0>> for (-1, 0.0).
find_matching_row(gt_row, extracted, matched_indices, threshold) ==
    IF extract_pca_number(gt_row.pca) = "" THEN <<0, 0>>
    ELSE LET best == ScanRows(gt_row, extracted, matched_indices, 1, <<0, 0>>)
         IN IF best[2] >= threshold THEN best ELSE <<0, 0>>

\* matched_extracted_indices = set(); matches = []
EvalFrame(gt, extracted, threshold) ==
    [pc |-> "loop", gt |-> gt, extracted |-> extracted, threshold |-> threshold,
     g |-> 1, matched |-> {}, matches |-> <<>>, metrics |-> <<>>]

\* One iteration of `for gt_idx, gt_row in gt_df.iterrows():`.
MatchRow ==
    /\ ev.pc = "loop"
    /\ ev.g <= Len(ev.gt)
    /\ LET found == find_matching_row(ev.gt[ev.g], ev.extracted, ev.matched,
                                      ev.threshold)
       IN IF found[1] > 0
          THEN ev' = [ev EXCEPT
                        !.matched = ev.matched \cup {found[1]},
                        !.matches = Append(ev.matches,
                                      [gt_idx |-> ev.g, ext_idx |-> found[1],
                                       score |-> found[2]]),
                        !.g = ev.g + 1]
          ELSE ev' = [ev EXCEPT !.g = ev.g + 1]
    /\ UNCHANGED <<svc, lock, running, status, next_job, c, w, rs, rd, seen,
                   ndirs, fs, ck, gd, pl, pj>>

\* Fractions <<numerator, denominator>>; Zero is the int 0 of `else 0`.
Zero == <<0, 1>>
IsZero(x) == x[1] = 0
Times(x, y) == <<x[1] * y[1], x[2] * y[2]>>
Plus(x, y) == <<x[1] * y[2] + y[1] * x[2], x[2] * y[2]>>
Over(x, y) == <<x[1] * y[2], x[2] * y[1]>>

\* true_positives = len(matches) ... accuracy = true_positives /
\* (true_positives + false_positives + false_negatives): the last division
\* has no guard and raises ZeroDivisionError on a zero denominator.
Metrics ==
    /\ ev.pc = "loop"
    /\ ev.g > Len(ev.gt)
    /\ LET tp == Len(ev.matches)
           fn == Len(ev.gt) - tp
           fp == Len(ev.extracted) - tp
           precision == IF Len(ev.extracted) > 0 THEN <<tp, Len(ev.extracted)>> ELSE Zero
           recall == IF Len(ev.gt) > 0 THEN <<tp, Len(ev.gt)>> ELSE Zero
           f1_score == IF ~IsZero(Plus(precision, recall))
                       THEN Over(Times(<<2, 1>>, Times(precision, recall)),
                                 Plus(precision, recall))
                       ELSE Zero
       IN IF tp + fp + fn = 0
          THEN ev' = [ev EXCEPT !.pc = "raised",
                                !.metrics = <<"ZeroDivisionError">>]
          ELSE ev' = [ev EXCEPT
                        !.pc = "done",
                        !.metrics = [precision |-> precision, recall |-> recall,
                                     f1_score |-> f1_score,
                                     accuracy |-> <<tp, tp + fp + fn>>]]
    /\ UNCHANGED <<svc, lock, running, status, next_job, c, w, rs, rd, seen,
                   ndirs, fs, ck, gd, pl, pj>>

\* calculate_metrics called on any two tables with any threshold.
InitEval ==
    /\ ServiceInit
    /\ svc = "benchmark"
    /\ ck = NoChunker
    /\ ev \in { EvalFrame(gt, ext, th) : gt \in Tables(GtRows, MaxGt),
                                         ext \in Tables(ExtRows, MaxExt),
                                         th \in Thresholds }
    /\ gd = NoDirs
    /\ pl = NoPipeline
    /\ pj = NoParse

NextEval ==
    \/ MatchRow
    \/ Metrics

SpecEval == InitEval /\ [][NextEval]_vars

\* ------------------------------------------------- get_next_experiment_dir
\* extract_pca_llm_simple.get_next_experiment_dir(base_dir), called by the
\* job thread of the extraction service and by the job thread of the
\* benchmark service with the same base_dir (settings.OUTPUT_DIR).  Each
\* service runs its own jobs one after the other (its running flag); the
\* two services share no lock.  A directory exp_NNN is written as the
\* number NNN.
MaxRuns == 2
MaxDir == 2

\* The frame of one job thread: where it is in the function, the listing it
\* took, the number it computed and how many jobs the service has started.
DirFrame == [pc |-> "idle", existing |-> {}, next_num |-> 0, runs |-> 0]

DirsFrame(disk) ==
    [pc |-> "on", disk |-> disk, fr |-> [s \in Services |-> DirFrame],
     given |-> <<>>]

MaxOf(nums) == CHOOSE n \in nums : \A m \in nums : m <= n

\* existing = [d for d in base_dir.iterdir() if ...]
DirsList(s) ==
    /\ gd.pc = "on"
    /\ gd.fr[s].pc = "idle"
    /\ gd.fr[s].runs < MaxRuns
    /\ gd' = [gd EXCEPT !.fr[s].pc = "listed", !.fr[s].existing = gd.disk]
    /\ UNCHANGED <<svc, lock, running, status, next_job, c, w, rs, rd, seen,
                   ndirs, fs, ck, ev, pl, pj>>

\* next_num = 1 if nothing is listed, else max(nums) + 1
DirsNumber(s) ==
    /\ gd.pc = "on"
    /\ gd.fr[s].pc = "listed"
    /\ gd' = [gd EXCEPT !.fr[s].pc = "numbered",
                        !.fr[s].next_num =
                            IF gd.fr[s].existing = {} THEN 1
                            ELSE MaxOf(gd.fr[s].existing) + 1]
    /\ UNCHANGED <<svc, lock, running, status, next_job, c, w, rs, rd, seen,
                   ndirs, fs, ck, ev, pl, pj>>

\* exp_dir.mkdir(parents=True, exist_ok=True); return exp_dir.  An existing
\* directory is no error.  The job of the service that called then ends
\* before the service starts its next one.
DirsMkdir(s) ==
    /\ gd.pc = "on"
    /\ gd.fr[s].pc = "numbered"
    /\ gd' = [gd EXCEPT !.disk = gd.disk \cup {gd.fr[s].next_num},
                        !.given = Append(gd.given,
                                         [service |-> s,
                                          run |-> gd.fr[s].runs + 1,
                                          exp_dir |-> gd.fr[s].next_num]),
                        !.fr[s] = [DirFrame EXCEPT
                                       !.runs = gd.fr[s].runs + 1]]
    /\ UNCHANGED <<svc, lock, running, status, next_job, c, w, rs, rd, seen,
                   ndirs, fs, ck, ev, pl, pj>>

InitDirs ==
    /\ ServiceInit
    /\ ck = NoChunker
    /\ ev = NoEval
    /\ gd \in {DirsFrame(disk) : disk \in SUBSET (1..MaxDir)}
    /\ pl = NoPipeline
    /\ pj = NoParse

NextDirs ==
    \/ \E s \in Services : DirsList(s)
    \/ \E s \in Services : DirsNumber(s)
    \/ \E s \in Services : DirsMkdir(s)

SpecDirs == InitDirs /\ [][NextDirs]_vars

\* --------------------------------------------------------- PipelineService
\* PipelineService._execute_pipeline runs run_pipeline on the one thread of
\* its executor.  A cancel request (POST /extract/{job_id}/cancel) adds the
\* job id to cancelled_jobs and puts "CANCELLED" on the job's log queue.
MaxPipeChunks == 2
MaxCancels == 1

Providers == {"gemini", "both"}

\* The replies the model backend may give to a call of the pipeline.
PipeTexts ==
    { GoodText,
      Text("json", JRows(<<RowB, RowC>>)),
      Text("fenced", JRows(<<RowA>>)),
      Text("garbage", None),
      Text("json", JNum),
      Text("json", JObjRowsNum),
      Text("json", JRows(<<RowScalar>>)) }

\* The call(s) do_one makes for a chunk: provider in ("openai", "both"),
\* then provider in ("gemini", "both").
ProviderCalls(provider) ==
    IF provider = "both" THEN <<"openai", "gemini">> ELSE <<provider>>

\* The frame of the pipeline thread of job job_id and the state of the
\* PipelineService object.  calls counts the model calls issued, flight
\* tells whether one has not returned yet; cancels counts the cancel
\* requests and calls_at_cancel is the value of calls at the first one.
PipelineFrame(provider) ==
    [pc |-> "start", job_id |-> 1, provider |-> provider,
     cancelled_jobs |-> {}, log_queue |-> <<>>,
     n |-> 0, idx |-> 0, todo |-> <<>>, obj |-> None,
     rows_for_chunk |-> <<>>, all_rows |-> <<>>, raw_saved |-> FALSE,
     compiled |-> None, repaired |-> FALSE, final_rows |-> <<>>,
     saved |-> {}, calls |-> 0, flight |-> FALSE,
     cancels |-> 0, calls_at_cancel |-> 0, ret |-> "none"]

\* The cancel request of the controller.
CancelRequest ==
    /\ pl.pc \notin {"off", "end"}
    /\ pl.cancels < MaxCancels
    /\ pl' = [pl EXCEPT !.cancelled_jobs = pl.cancelled_jobs \cup {pl.job_id},
                        !.log_queue = Append(pl.log_queue, "CANCELLED"),
                        !.cancels = pl.cancels + 1,
                        !.calls_at_cancel = pl.calls]
    /\ UNCHANGED <<svc, lock, running, status, next_job, c, w, rs, rd, seen,
                   ndirs, fs, ck, ev, gd, pj>>

\* if job_id in self.cancelled_jobs: log_queue.put("CANCELLED");
\*     self.cancelled_jobs.discard(job_id); return None
\* at the two places _execute_pipeline has it: before run_pipeline is
\* called and after it has returned.
CancelCheck(frame, next) ==
    IF frame.job_id \in frame.cancelled_jobs
    THEN [frame EXCEPT !.log_queue = Append(frame.log_queue, "CANCELLED"),
                       !.cancelled_jobs = frame.cancelled_jobs \ {frame.job_id},
                       !.ret = "cancelled",
                       !.pc = "finally"]
    ELSE [frame EXCEPT !.pc = next]

\* An exception raised inside the try block of _execute_pipeline.
PipeRaised(frame) == [frame EXCEPT !.pc = "except", !.flight = FALSE]

PipeUnchanged ==
    UNCHANGED <<svc, lock, running, status, next_job, c, w, rs, rd, seen,
                ndirs, fs, ck, ev, gd, pj>>

PipeCheckBefore ==
    /\ pl.pc = "start"
    /\ pl' = CancelCheck(pl, "setup")
    /\ PipeUnchanged

\* run_pipeline up to the chunk loop: experiment directory, metadata,
\* PCA list, pages, chunks (any of the file operations may raise).
PipeSetup ==
    /\ pl.pc = "setup"
    /\ \/ pl' = PipeRaised(pl)
       \/ \E n \in 0..MaxPipeChunks :
             pl' = [pl EXCEPT !.n = n, !.idx = 0, !.all_rows = <<>>,
                              !.pc = "loop"]
    /\ PipeUnchanged

\* for idx, ch in enumerate(chunks, start=1): ... rows_for_chunk = []
PipeLoop ==
    /\ pl.pc = "loop"
    /\ IF pl.idx < pl.n
       THEN pl' = [pl EXCEPT !.idx = pl.idx + 1,
                             !.rows_for_chunk = <<>>,
                             !.todo = ProviderCalls(pl.provider),
                             !.pc = "call"]
       ELSE pl' = [pl EXCEPT !.pc = "saveraw"]
    /\ PipeUnchanged

\* A model call is issued: call_openai_json / call_gemini_json /
\* llm_fix_to_json is entered, at any of the places run_pipeline calls one.
PipeIssue ==
    /\ pl.pc \in {"call", "fix", "compile", "compfix"}
    /\ ~pl.flight
    /\ pl' = [pl EXCEPT !.calls = pl.calls + 1, !.flight = TRUE]
    /\ PipeUnchanged

\* raw = call_..._json(prompt, model, temperature); obj = try_parse_json(raw)
\* if obj is None: the repair call follows.
PipeChunkReply ==
    /\ pl.pc = "call"
    /\ pl.flight
    /\ \/ pl' = PipeRaised(pl)
       \/ \E text \in PipeTexts :
             LET obj == try_parse_json(text) IN
             pl' = [pl EXCEPT !.obj = obj, !.flight = FALSE,
                              !.pc = IF obj = None THEN "fix" ELSE "rows"]
    /\ PipeUnchanged

\* fixed = llm_fix_to_json(raw, provider_name, model, temperature)
\* obj = try_parse_json(fixed)
PipeFixReply ==
    /\ pl.pc = "fix"
    /\ pl.flight
    /\ \/ pl' = PipeRaised(pl)
       \/ \E text \in PipeTexts :
             pl' = [pl EXCEPT !.obj = try_parse_json(text), !.flight = FALSE,
                              !.pc = "rows"]
    /\ PipeUnchanged

\* The outcome [err, rows] of the end of do_one:
\*     if obj is None or "rows" not in obj or not isinstance(obj["rows"], list):
\*         return []
\*     for r in obj["rows"]: r.setdefault("source_pages", f"{start}-{end}")
\*     return obj["rows"]
PipelineChunkRows(obj, idx) ==
    CASE obj.t = "null" -> Outcome("", <<>>)
      [] obj.t = "num" ->
            Outcome("TypeError: argument of type 'int' is not iterable", <<>>)
      [] obj.t \in {"str", "list"} /\ obj.has ->
            Outcome("TypeError: indices must be integers", <<>>)
      [] obj.t = "dict" /\ obj.has /\ obj.rk = "list" ->
            IF \E i \in 1..Len(obj.rows) : ~obj.rows[i].isobj
            THEN Outcome("AttributeError: object has no attribute 'setdefault'", <<>>)
            ELSE Outcome("", MapDefault(obj.rows, idx))
      [] OTHER -> Outcome("", <<>>)

\* rows_for_chunk.extend(do_one(..)) for each provider, then
\* all_rows.extend(rows_for_chunk)
PipeRows ==
    /\ pl.pc = "rows"
    /\ LET out == PipelineChunkRows(pl.obj, pl.idx)
           rows == pl.rows_for_chunk \o out.rows
       IN IF out.err # "" THEN pl' = PipeRaised(pl)
          ELSE IF Len(pl.todo) > 1
          THEN pl' = [pl EXCEPT !.rows_for_chunk = rows,
                                !.todo = Tail(pl.todo), !.pc = "call"]
          ELSE pl' = [pl EXCEPT !.rows_for_chunk = rows, !.todo = <<>>,
                                !.all_rows = pl.all_rows \o rows,
                                !.pc = "loop"]
    /\ PipeUnchanged

\* save_json(out_final / "all_rows_raw.json", all_rows)
PipeSaveRaw ==
    /\ pl.pc = "saveraw"
    /\ pl' = [pl EXCEPT !.raw_saved = TRUE, !.pc = "compile"]
    /\ PipeUnchanged

\* compiled_raw = call_..._json(compile_prompt, ..)
\* compiled = try_parse_json(compiled_raw); if compiled is None: repair
PipeCompileReply ==
    /\ pl.pc = "compile"
    /\ pl.flight
    /\ \/ pl' = PipeRaised(pl)
       \/ \E text \in PipeTexts :
             LET compiled == try_parse_json(text) IN
             pl' = [pl EXCEPT !.compiled = compiled, !.flight = FALSE,
                              !.pc = IF compiled = None THEN "compfix"
                                     ELSE "final"]
    /\ PipeUnchanged

\* fixed = llm_fix_to_json(compiled_raw, ..); compiled = try_parse_json(fixed)
PipeCompileFixReply ==
    /\ pl.pc = "compfix"
    /\ pl.flight
    /\ \/ pl' = PipeRaised(pl)
       \/ \E text \in PipeTexts :
             pl' = [pl EXCEPT !.compiled = try_parse_json(text),
                              !.repaired = TRUE, !.flight = FALSE,
                              !.pc = "final"]
    /\ PipeUnchanged

\* The outcome [err, rows] of
\*     final_rows = compiled.get("rows", []) if isinstance(compiled, dict) else []
\*     for i, r in enumerate(final_rows, start=1): r["pca_identifier"] = i
PipelineFinalRows(compiled) ==
    CASE compiled.t # "dict" -> Outcome("", <<>>)
      [] compiled.t = "dict" /\ ~compiled.has -> Outcome("", <<>>)
      [] compiled.t = "dict" /\ compiled.has /\ compiled.rk # "list" ->
            Outcome("TypeError: 'int' object is not iterable", <<>>)
      [] OTHER ->
            IF \E i \in 1..Len(compiled.rows) : ~compiled.rows[i].isobj
            THEN Outcome("TypeError: object does not support item assignment", <<>>)
            ELSE Outcome("", AddIdentifiers(compiled.rows))

\* final_rows and save_json(out_final / "final_rows_compiled.json", ..)
PipeFinal ==
    /\ pl.pc = "final"
    /\ LET out == PipelineFinalRows(pl.compiled) IN
       IF out.err # "" THEN pl' = PipeRaised(pl)
       ELSE pl' = [pl EXCEPT !.final_rows = out.rows,
                             !.saved = {"json"}, !.pc = "csv"]
    /\ PipeUnchanged

\* the CSV file; run_pipeline returns
PipeCsv ==
    /\ pl.pc = "csv"
    /\ pl' = [pl EXCEPT !.saved = pl.saved \cup {"csv"}, !.pc = "after"]
    /\ PipeUnchanged

\* the check after run_pipeline, then log_queue.put("DONE:" + ..)
PipeCheckAfter ==
    /\ pl.pc = "after"
    /\ LET f == CancelCheck(pl, "finally") IN
       pl' = IF f.ret = "cancelled" THEN f
             ELSE [f EXCEPT !.log_queue = Append(pl.log_queue, "DONE"),
                            !.ret = "done"]
    /\ PipeUnchanged

\* except Exception as e: log_queue.put(f"ERROR:{str(e)}"); raise e
PipeExcept ==
    /\ pl.pc = "except"
    /\ pl' = [pl EXCEPT !.log_queue = Append(pl.log_queue, "ERROR"),
                        !.ret = "raised", !.pc = "finally"]
    /\ PipeUnchanged

\* finally: self.cancelled_jobs.discard(job_id)
PipeFinally ==
    /\ pl.pc = "finally"
    /\ pl' = [pl EXCEPT !.cancelled_jobs = pl.cancelled_jobs \ {pl.job_id},
                        !.pc = "end"]
    /\ PipeUnchanged

InitPipe ==
    /\ ServiceInit
    /\ svc = "extraction"
    /\ ck = NoChunker
    /\ ev = NoEval
    /\ gd = NoDirs
    /\ pl \in {PipelineFrame(provider) : provider \in Providers}
    /\ pj = NoParse

NextPipe ==
    \/ CancelRequest
    \/ PipeCheckBefore
    \/ PipeSetup
    \/ PipeLoop
    \/ PipeIssue
    \/ PipeChunkReply
    \/ PipeFixReply
    \/ PipeRows
    \/ PipeSaveRaw
    \/ PipeCompileReply
    \/ PipeCompileFixReply
    \/ PipeFinal
    \/ PipeCsv
    \/ PipeCheckAfter
    \/ PipeExcept
    \/ PipeFinally

SpecPipe == InitPipe /\ [][NextPipe]_vars

\* ----------------------------------------------- try_parse_json on a text
\* The text of a reply as a sequence of tokens, blanks between them:
\*   "{"  "}"   braces          "k"  a key with its colon ("k":)
\*   "1"        a number        "x"  a word of prose
\*   "F"        the fence ```json          "E"  the fence ```
\* The JSON texts over these tokens are  1,  {}  and  {"k": value}.
MaxTokens == 6

Tokens == {"{", "}", "k", "1", "x", "F", "E"}

TokenTexts == UNION { [1..n -> Tokens] : n \in 0..MaxTokens }

\* The values json.loads produces, and the exception it raises otherwise.
JsonNumber == [t |-> "num", items |-> <<>>]
JsonObject(items) == [t |-> "dict", items |-> items]
JSONDecodeError == [t |-> "error", items |-> <<>>]
NoObject == [t |-> "None", items |-> <<>>]

\* json.loads(text)
RECURSIVE json_loads(_)
json_loads(text) ==
    IF text = <<"1">> THEN JsonNumber
    ELSE IF text = <<"{", "}">> THEN JsonObject(<<>>)
    ELSE IF /\ Len(text) >= 4
            /\ text[1] = "{" /\ text[2] = "k" /\ text[Len(text)] = "}"
    THEN LET value == json_loads(SubSeq(text, 3, Len(text) - 1)) IN
         IF value = JSONDecodeError THEN JSONDecodeError
         ELSE JsonObject(<<value>>)
    ELSE JSONDecodeError

\* A span <<first, last>> of the text that a pattern's group matched,
\* <<0, 0>> when the search found nothing.
NoMatch == <<0, 0>>

\* The closing ``` of the pattern is also found at the start of a ```json.
ClosesFence(token) == token \in {"E", "F"}

\* The end of the group \{.*?\} followed by \s*```: the first closing
\* brace at or after position j that a closing fence follows, 0 if none.
RECURSIVE LazyEnd(_, _)
LazyEnd(text, j) ==
    IF j > Len(text) - 1 THEN 0
    ELSE IF text[j] = "}" /\ ClosesFence(text[j + 1]) THEN j
    ELSE LazyEnd(text, j + 1)

\* re.search(r"```json\s*(\{.*?\})\s*```", text, flags=re.S) from position
\* i on: the leftmost ```json that an opening brace follows and from which
\* the group can be completed.
RECURSIVE FencedSearch(_, _)
FencedSearch(text, i) ==
    IF i > Len(text) - 1 THEN NoMatch
    ELSE IF text[i] = "F" /\ text[i + 1] = "{" /\ LazyEnd(text, i + 2) # 0
    THEN <<i + 1, LazyEnd(text, i + 2)>>
    ELSE FencedSearch(text, i + 1)

RECURSIVE FirstIndex(_, _, _)
FirstIndex(text, token, i) ==
    IF i > Len(text) THEN 0
    ELSE IF text[i] = token THEN i
    ELSE FirstIndex(text, token, i + 1)

RECURSIVE LastIndex(_, _, _)
LastIndex(text, token, i) ==
    IF i < 1 THEN 0
    ELSE IF text[i] = token THEN i
    ELSE LastIndex(text, token, i - 1)

\* A search that stops at the first closing brace.
GreedySearchShort(text) ==
    LET a == FirstIndex(text, "{", 1)
        b == IF a = 0 THEN 0 ELSE FirstIndex(text, "}", a + 1)
    IN IF a # 0 /\ b > a THEN <<a, b>> ELSE NoMatch

\* re.search(r"(\{.*\})", text, flags=re.S): from the first opening brace
\* to the last closing brace after it.
GreedySearch(text) ==
    LET a == FirstIndex(text, "{", 1)
        b == LastIndex(text, "}", Len(text))
    IN IF a # 0 /\ b > a THEN <<a, b>> ELSE NoMatch

Group(text, span) == SubSeq(text, span[1], span[2])

\* The frame of try_parse_json(text): tried lists the strategies whose
\* json.loads was called.
ParseFrame(text) ==
    [pc |-> "plain", text |-> text, tried |-> <<>>, result |-> NoObject]

ParseUnchanged ==
    UNCHANGED <<svc, lock, running, status, next_job, c, w, rs, rd, seen,
                ndirs, fs, ck, ev, gd, pl>>

\* A frame whose strategy at pc called json.loads on group: it returns the
\* value, or goes on at next when json.loads raised.
Tried(frame, group, next) ==
    LET value == json_loads(group) IN
    IF value # JSONDecodeError
    THEN [frame EXCEPT !.tried = Append(frame.tried, frame.pc),
                       !.result = value, !.pc = "return"]
    ELSE [frame EXCEPT !.tried = Append(frame.tried, frame.pc), !.pc = next]

\* try: return json.loads(text)  except Exception: pass
ParsePlain ==
    /\ pj.pc = "plain"
    /\ pj' = Tried(pj, pj.text, "fenced")
    /\ ParseUnchanged

\* m = re.search(fenced pattern); if m: try: return json.loads(m.group(1))
ParseFenced ==
    /\ pj.pc = "fenced"
    /\ LET m == FencedSearch(pj.text, 1) IN
       IF m # NoMatch THEN pj' = Tried(pj, Group(pj.text, m), "greedy")
       ELSE pj' = [pj EXCEPT !.pc = "greedy"]
    /\ ParseUnchanged

\* m = re.search(r"(\{.*\})"); if m: try: return json.loads(m.group(1))
\* return None
ParseGreedy ==
    /\ pj.pc = "greedy"
    /\ LET m == GreedySearch(pj.text) IN
       IF m # NoMatch THEN pj' = Tried(pj, Group(pj.text, m), "return")
       ELSE pj' = [pj EXCEPT !.pc = "return"]
    /\ ParseUnchanged

InitParse ==
    /\ ServiceInit
    /\ svc = "extraction"
    /\ ck = NoChunker
    /\ ev = NoEval
    /\ gd = NoDirs
    /\ pl = NoPipeline
    /\ pj \in {ParseFrame(text) : text \in TokenTexts}

NextParse ==
    \/ ParsePlain
    \/ ParseFenced
    \/ ParseGreedy

SpecParse == InitParse /\ [][NextParse]_vars

\* ------------------------------------------- the services' gateway calls
\* def call_gemini_json(prompt: str, model: str, temperature: float = 0.0)
GeminiParams == <<"prompt", "model", "temperature">>

\* call_gemini_json(prompt, model, temperature, api_key=api_key)
ServiceCall == [positional |-> 3, keywords |-> {"api_key"}]

\* Python binds a call to a function without *args/**kwargs when there are
\* no more positional arguments than parameters and every keyword names a
\* parameter that no positional argument has filled.
Binds(params, call) ==
    /\ call.positional <= Len(params)
    /\ \A k \in call.keywords :
          \E i \in (call.positional + 1)..Len(params) : params[i] = k

\* raw = call_gemini_json(prompt, model, temperature, api_key=api_key) with
\* the function as it is defined and a backend that answers every call with
\* an object holding a rows list.
CallGateway(j) ==
    /\ Alive(j)
    /\ At(j).op = "call"
    /\ IF Binds(GeminiParams, ServiceCall)
       THEN LET obj == try_parse_json(GoodText) IN
            w' = [w EXCEPT ![j].obj = obj,
                           ![j].calls = w[j].calls + 1,
                           ![j].step_calls = 1,
                           ![j].first_null = (obj = None),
                           ![j].pc = AfterCall(svc, w[j].pc, obj)]
       ELSE w' = [w EXCEPT ![j] =
                     Raised(w[j], "TypeError: unexpected keyword argument 'api_key'")]
    /\ UNCHANGED <<aux, svc, lock, running, status, next_job, c, rs, rd, seen, ndirs, fs>>

\* Jobs of a service whose gateway calls are bound as Python binds them.
NextBound ==
    \/ CallerStep(1, SeqJobs)
    \/ \E j \in Jobs :
          \/ WriteStatus(j)
          \/ FindProject(j)
          \/ MakeExperimentDir(j)
          \/ ExtractPages(j)
          \/ ChunkPages(j, MaxChunks)
          \/ LoopHead(j)
          \/ CallGateway(j)
          \/ FinallyLock(j)
          \/ FinallyClear(j)

SpecBound == Init /\ [][NextBound]_vars

\* ================================================================= claims
RECURSIVE Flatten(_)
Flatten(ss) == IF ss = <<>> THEN <<>> ELSE Head(ss) \o Flatten(Tail(ss))

IsPrefix(a, b) == Len(a) <= Len(b) /\ SubSeq(b, 1, Len(a)) = a

\* The calls admitted and not yet started, and the jobs whose worker lives.
Admitted == {t \in Callers : c[t].pc \in {"init", "start"}}
Active == {j \in Jobs : Alive(j)}

\* C1: under any interleaving of start calls and worker completions at most
\* one job of the service is active: the callers past admission and the live
\* workers are never more than one, and the running flag is set whenever
\* there is one; so a call is admitted (and returns True) only when no job
\* was running, and of the calls racing on an idle service only one is.
C1_SingleFlight ==
    /\ Cardinality(Admitted) + Cardinality(Active) <= 1
    /\ (Admitted # {} \/ Active # {}) => running

\* Two calls raced: one was admitted and its worker runs, the other got False.
C1_Witness ==
    \E t1, t2 \in Callers :
        /\ c[t1].ret = "True" /\ c[t2].ret = "False"
        /\ c[t1].job < c[t2].job
        /\ Alive(c[t1].job)

\* C2: every dict get_status returns holds, in the fields followed, values
\* the status object had at one instant between the call and the return.
C2_AtomicSnapshot == rd.res = "dict" => View(rd.snap) \in seen

\* C3: the steps of a start call that finds the running flag set change
\* neither the flag, nor the status object, nor the worker threads, nor the
\* artifacts, and the call returns False.
C3_RejectedStartChangesNothing ==
    [][\A t \in Callers :
          (c'[t] # c[t] /\ (c[t].pc = "idle" \/ (c[t].pc = "check" /\ running)))
          => /\ running' = running
             /\ status' = status
             /\ w' = w
             /\ fs' = fs
             /\ c[t].pc = "check" => c'[t].ret = "False"]_vars

\* A call was rejected while the worker of the admitted job was mid-way.
C3_Witness ==
    \E t \in Callers :
        /\ c[t].ret = "False" /\ c[t].pc = "idle"
        /\ \E j \in Jobs : Alive(j) /\ j # c[t].job /\ status.job_id = j
                           /\ Leq(Pct(5), status.progress_percent)

\* C4: a live worker always finds the status object of its own job in place,
\* and a reset that holds the lock leaves the status as it is when the
\* running flag is set and replaces it by None (get_status: idle) when not.
C4_ResetOnlyWhenNotRunning ==
    /\ [](\A j \in Jobs : Alive(j) => status.job_id = j)
    /\ [][rs.pc = "locked" /\ rs'.pc = "idle"
            => IF running THEN status' = status /\ rs'.last = "refused"
                          ELSE IsNone(status') /\ rs'.last = "cleared"]_vars

\* A reset was refused while the job it would have wiped is running.
C4_Witness ==
    /\ rs.last = "refused"
    /\ \E j \in Jobs : Alive(j) /\ status.job_id = j /\ status.status = "running"

\* C5: a status object starts running; while it is the same object it moves
\* from running to completed or error only, and from completed or error
\* nowhere.
C5_StatusTransitions ==
    /\ [](status.status \in {"idle", "running", "completed", "error"})
    /\ [](IsNone(status) <=> status.status = "idle")
    /\ [][/\ (status'.job_id # status.job_id /\ ~IsNone(status'))
                => status'.status = "running"
          /\ (status'.job_id = status.job_id /\ status.status = "running")
                => status'.status \in {"running", "completed", "error"}
          /\ (status'.job_id = status.job_id /\
              status.status \in {"completed", "error"})
                => status'.status = status.status]_vars

\* The first job's status was replaced and the second job ended in error
\* after its worker had left.
C5_Witness ==
    /\ status.job_id = 2
    /\ status.status \in {"completed", "error"}
    /\ status.completed_at
    /\ Active = {}

\* C6: from one step to the next of a job whose status is running the
\* progress_percent does not decrease, and it is never above 100, whatever
\* the number of chunks.
C6_ProgressMonotone ==
    /\ [](Leq(status.progress_percent, Pct(100)))
    /\ [][(status'.job_id = status.job_id /\ status.status = "running")
            => Leq(status.progress_percent, status'.progress_percent)]_vars

\* The second of two chunks has moved the progress into the chunk band.
C6_Witness ==
    \E j \in Jobs :
        /\ Alive(j) /\ w[j].n = 2 /\ w[j].idx = 2
        /\ status.status = "running"
        /\ status.progress_percent = ChunkProgress(20, 60, 2, 2)

\* The worker of job j has caught an exception of a model call.
CallFailed(j) == Alive(j) /\ w[j].exc = "call failed"

\* C7: when a model call raises, the worker reaches its finally clause with
\* the status error and the exception's message in the error field, with the
\* raw-rows artifact holding the rows of the chunks completed before (when
\* there are any: no chunk completed, no artifact written); from the raise
\* on it issues no model call, and it ends by clearing the running flag.
C7_GatewayFailure ==
    /\ [](\A j \in Jobs :
            (CallFailed(j) /\ w[j].pc >= FinallyAt(svc))
            => /\ status.job_id = j
               /\ status.status = "error"
               /\ status.error = w[j].exc
               /\ w[j].accepted # <<>>
                    => fs[w[j].exp].raw = File(Flatten(w[j].accepted)))
    /\ [][\A j \in Jobs :
            (CallFailed(j) /\ w'[j] # w[j])
            => IF Alive(j)' THEN w'[j].calls = w[j].calls
                            ELSE ~running' /\ status'.status = "error"]_vars

\* The call for the second chunk raised after the first chunk gave rows.
C7_Witness ==
    \E j \in Jobs :
        /\ CallFailed(j) /\ w[j].pc = FinallyAt(svc)
        /\ w[j].idx = 2 /\ w[j].calls = 2
        /\ fs[w[j].exp].raw = File(<<SetDefaultPages(RowA, 1)>>)

\* The exceptions that come of what a reply holds.
ContentErrors ==
    {"TypeError: argument of type 'int' is not iterable",
     "TypeError: indices must be integers",
     "TypeError: object of type 'int' has no len()",
     "AttributeError: object has no attribute 'setdefault'",
     "AttributeError: object has no attribute 'get'"}

\* C8: no job ends in status error because of what a reply holds.
C8_ReplyNeverFatal ==
    status.status = "error" => status.error \notin ContentErrors

\* C9: when the rows of a chunk or of the compile step are taken, the step
\* has made one call, and a second one exactly when the parse of the first
\* reply returned None; a job over n chunks that reaches its completion has
\* made at least n + 1 and at most 2n + 2 calls.
C9_OneRepairPerStep ==
    \A j \in Jobs :
        /\ (Alive(j) /\ At(j).op \in {"rows", "final"})
              => w[j].step_calls = IF w[j].first_null THEN 2 ELSE 1
        /\ (Alive(j) /\ w[j].exc = "" /\ w[j].pc >= DoneAt(svc))
              => /\ w[j].n + 1 <= w[j].calls
                 /\ w[j].calls <= 2 * w[j].n + 2

\* A job over two chunks completes after a repair in every step.
C9_Witness ==
    \E j \in Jobs :
        /\ Alive(j) /\ w[j].exc = "" /\ w[j].pc >= DoneAt(svc)
        /\ w[j].n = 2 /\ w[j].calls = 6
        /\ status.status = "completed"

\* C10: when the model call of chunk k+1, or the compile call, is about to
\* be issued after k >= 1 chunks, all_rows_raw.json holds the concatenation
\* in chunk order of the rows accepted from chunks 1..k; a write of the
\* artifact only appends to what it held.
C10_RawRowsArtifact ==
    /\ [](\A j \in Jobs :
            (Alive(j) /\ At(j).op = "call" /\ w[j].exc = "" /\
             (IF w[j].pc < CompileAt(svc) THEN w[j].idx - 1 ELSE w[j].n) >= 1)
            => /\ Len(w[j].accepted) =
                    (IF w[j].pc < CompileAt(svc) THEN w[j].idx - 1 ELSE w[j].n)
               /\ fs[w[j].exp].raw = File(Flatten(w[j].accepted)))
    /\ [][\A d \in Jobs :
            /\ fs[d].raw.exists => fs'[d].raw.exists
            /\ IsPrefix(fs[d].raw.rows, fs'[d].raw.rows)]_vars

\* The compile call is about to be issued after two chunks that both gave
\* rows.
C10_Witness ==
    \E j \in Jobs :
        /\ Alive(j) /\ At(j).op = "call" /\ w[j].pc >= CompileAt(svc)
        /\ Len(w[j].accepted) = 2
        /\ w[j].accepted[1] # <<>> /\ w[j].accepted[2] # <<>>
        /\ Len(fs[w[j].exp].raw.rows) = Len(w[j].accepted[1]) + Len(w[j].accepted[2])

\* The position of the final-rows statements in the worker's program.
FinalAt(s) == CHOOSE i \in 1..Len(Program(s)) : Program(s)[i].op = "final"

\* The worker of job j has written final_rows_compiled.json.
Finalized(j) == Alive(j) /\ w[j].exp > 0 /\ fs[w[j].exp].final_json.exists

\* C11: when the compile reply is still unparsed after the repair (compiled
\* is None), the final-rows statements do not raise, the rows they filter
\* are the raw accumulator (the accepted rows of all chunks in order), the
\* result is persisted, and the worker goes on: no exception of its own
\* statements ends the job from there (only the evaluator's, in a benchmark).
C11_CompileFallback ==
    /\ [](\A j \in Jobs :
            (Finalized(j) /\ w[j].obj = None)
            => /\ fs[w[j].exp].final_json =
                    File(AddIdentifiers(FilterRows(Flatten(w[j].accepted))))
               /\ w[j].exc \in {"", "KeyError: 'Address'"}
               /\ svc = "extraction" => w[j].exc = "")
    /\ [][\A j \in Jobs :
            (Alive(j) /\ At(j).op = "final" /\ w[j].obj = None /\ w'[j] # w[j])
            => /\ w'[j].exc = ""
               /\ w'[j].pc = w[j].pc + 1
               /\ w'[j].final_rows = AddIdentifiers(FilterRows(w[j].all_rows))
               /\ Finalized(j)']_vars

\* A job over two chunks completed on the raw rows after the compile reply
\* and its repair both failed to parse.
C11_Witness ==
    \E j \in Jobs :
        /\ Finalized(j) /\ w[j].obj = None /\ w[j].n = 2
        /\ Len(w[j].final_rows) >= 2
        /\ Len(w[j].all_rows) > Len(w[j].final_rows)
        /\ status.status = "completed"

\* A pca_number that is present, an integer, and in range.
IntegerPca(r) ==
    /\ r.pca_number.k = "int"
    /\ MinPca <= r.pca_number.v
    /\ r.pca_number.v <= MaxPca

RECURSIVE KeepInteger(_)
KeepInteger(rows) ==
    IF rows = <<>> THEN <<>>
    ELSE IF IntegerPca(Head(rows)) THEN <<Head(rows)>> \o KeepInteger(Tail(rows))
    ELSE KeepInteger(Tail(rows))

StripIdentifiers(rows) ==
    [i \in 1..Len(rows) |-> [rows[i] EXCEPT !.pca_identifier = 0]]

\* C12: the rows of final_rows_compiled.json and of the CSV table are, in
\* their order, exactly the rows of the pre-filter set whose pca_number is
\* an integer in 1..59.
C12_FilterExact ==
    \A j \in Jobs :
        Finalized(j) =>
            LET want == StripIdentifiers(
                            KeepInteger(SelectedRows(w[j].obj, w[j].all_rows)))
                dir == fs[w[j].exp]
            IN /\ StripIdentifiers(dir.final_json.rows) = want
               /\ dir.csv.exists => StripIdentifiers(dir.csv.rows) = want

\* C13: the pca_identifier values of the rows of final_rows_compiled.json
\* and of the CSV table are 1, 2, ..., N in output order, and the rows are
\* those left by the filter.
C13_Identifiers ==
    \A j \in Jobs :
        Finalized(j) =>
            LET dir == fs[w[j].exp] IN
            /\ \A i \in 1..Len(dir.final_json.rows) :
                  dir.final_json.rows[i].pca_identifier = i
            /\ \A i \in 1..Len(dir.csv.rows) : dir.csv.rows[i].pca_identifier = i
            /\ Len(dir.final_json.rows) =
                  Len(FilterRows(SelectedRows(w[j].obj, w[j].all_rows)))

\* The compiled rows held a row the filter drops and a row that brought the
\* identifier 9; the table has two rows.
C13_Witness ==
    \E j \in Jobs :
        /\ Finalized(j) /\ fs[w[j].exp].csv.exists
        /\ w[j].obj = JRows(<<RowT, RowB, RowD>>)
        /\ Len(fs[w[j].exp].csv.rows) = 2

\* The pages of a sequence of chunks, in order.
RECURSIVE ChunkPagesOf(_)
ChunkPagesOf(chunks) ==
    IF chunks = <<>> THEN <<>>
    ELSE Head(chunks).pages \o ChunkPagesOf(Tail(chunks))

RECURSIVE Words(_)
Words(pages) == IF pages = <<>> THEN 0 ELSE Head(pages).wc + Words(Tail(pages))

LargestPage(pages) ==
    CHOOSE m \in {pages[i].wc : i \in 1..Len(pages)} :
        \A i \in 1..Len(pages) : pages[i].wc <= m

\* C14: the chunks returned partition the page sequence: their page lists
\* concatenated in order are the input, no chunk is empty, and start and
\* end of a chunk are the page numbers of its first and last page.
C14_ChunksPartition ==
    ck.pc = "done" =>
        /\ ChunkPagesOf(ck.chunks) = ck.pages
        /\ \A k \in 1..Len(ck.chunks) :
              LET ch == ck.chunks[k] IN
              /\ ch.pages # <<>>
              /\ ch.start = ch.pages[1].page_num
              /\ ch.end = ch.pages[Len(ch.pages)].page_num

\* Four pages were cut into two chunks of two pages.
C14_Witness ==
    /\ ck.pc = "done"
    /\ Len(ck.pages) = 4
    /\ Len(ck.chunks) = 2
    /\ Len(ck.chunks[1].pages) = 2
    /\ ck.chunks[2].start = 3 /\ ck.chunks[2].end = 4

\* C15: when no page has more than word_limit words, no chunk returned has
\* more words than word_limit plus the words of its largest page.
C15_ChunkSize ==
    (ck.pc = "done" /\ \A i \in 1..Len(ck.pages) : ck.pages[i].wc <= ck.word_limit)
    => \A k \in 1..Len(ck.chunks) :
          Words(ck.chunks[k].pages) <=
              ck.word_limit + LargestPage(ck.chunks[k].pages)

\* Pages within the limit whose sum is beyond it were cut into chunks, one
\* of which fills the limit with several pages.
C15_Witness ==
    /\ ck.pc = "done"
    /\ \A i \in 1..Len(ck.pages) : ck.pages[i].wc <= ck.word_limit
    /\ Words(ck.pages) > ck.word_limit
    /\ \E k \in 1..Len(ck.chunks) :
          /\ Len(ck.chunks[k].pages) >= 2
          /\ Words(ck.chunks[k].pages) = ck.word_limit

\* C16: in the matches of calculate_metrics no extracted row index and no
\* ground truth row index appears twice.
C16_MatchingInjective ==
    ev.pc # "off" =>
        \A a, b \in 1..Len(ev.matches) :
            a # b => /\ ev.matches[a].ext_idx # ev.matches[b].ext_idx
                     /\ ev.matches[a].gt_idx # ev.matches[b].gt_idx

\* Two equal ground truth rows were matched, each with a row of its own.
C16_Witness ==
    /\ ev.pc = "done"
    /\ Len(ev.gt) = 2 /\ ev.gt[1] = ev.gt[2]
    /\ Len(ev.matches) = 2
    /\ ev.matches[1].score = ev.matches[2].score

\* C17: the two rows of a match have the same extracted PCA number, and it
\* is not empty.
C17_PcaGate ==
    ev.pc # "off" =>
        \A a \in 1..Len(ev.matches) :
            LET gt_pca == extract_pca_number(ev.gt[ev.matches[a].gt_idx].pca)
                ext_pca == extract_pca_number(ev.extracted[ev.matches[a].ext_idx].pca)
            IN gt_pca = ext_pca /\ gt_pca # ""

\* Rows with the same address and different PCA numbers were left
\* unmatched at threshold 0.
C17_Witness ==
    /\ ev.pc = "done"
    /\ ev.threshold = 0
    /\ ev.matches = <<>>
    /\ \E g \in 1..Len(ev.gt), e \in 1..Len(ev.extracted) :
          /\ normalize_address(ev.gt[g].address) =
                normalize_address(ev.extracted[e].address)
          /\ extract_pca_number(ev.gt[g].pca) # ""
          /\ extract_pca_number(ev.extracted[e].pca) # ""
          /\ extract_pca_number(ev.gt[g].pca) # extract_pca_number(ev.extracted[e].pca)

\* An extracted row not yet matched with the normalized address and the
\* non-empty PCA number of the ground truth row.
Twin(gt_row, idx) ==
    /\ idx \notin ev.matched
    /\ normalize_address(ev.extracted[idx].address) =
          normalize_address(gt_row.address)
    /\ extract_pca_number(ev.extracted[idx].pca) = extract_pca_number(gt_row.pca)
    /\ extract_pca_number(gt_row.pca) # ""

\* C18: a ground truth row for which such an extracted row exists is
\* matched, with score 1.0, at every threshold up to 1.
C18_IdenticalRowsMatch ==
    [][(/\ ev.pc = "loop"
        /\ ev.g <= Len(ev.gt)
        /\ ev' # ev
        /\ \E idx \in 1..Len(ev.extracted) : Twin(ev.gt[ev.g], idx))
       => /\ Len(ev'.matches) = Len(ev.matches) + 1
          /\ ev'.matches[Len(ev'.matches)].gt_idx = ev.g
          /\ ev'.matches[Len(ev'.matches)].score = 10]_vars

\* At threshold 1.0 a row was matched with a row whose address is written
\* differently and normalizes to the same text.
C18_Witness ==
    /\ ev.pc = "done"
    /\ ev.threshold = 10
    /\ \E a \in 1..Len(ev.matches) :
          LET g == ev.gt[ev.matches[a].gt_idx].address
              e == ev.extracted[ev.matches[a].ext_idx].address
          IN g # e /\ normalize_address(g) = normalize_address(e)
             /\ ev.matches[a].score = 10

\* C19: with an empty extracted table, an empty ground truth table, or
\* both, calculate_metrics returns (it does not raise) and precision,
\* recall, F1 and accuracy are 0.
C19_ZeroMetrics ==
    (ev.pc \in {"done", "raised"} /\ (Len(ev.gt) = 0 \/ Len(ev.extracted) = 0))
    => /\ ev.pc = "done"
       /\ IsZero(ev.metrics.precision)
       /\ IsZero(ev.metrics.recall)
       /\ IsZero(ev.metrics.f1_score)
       /\ IsZero(ev.metrics.accuracy)

\* C20: no two jobs are given the same experiment directory: every call of
\* get_next_experiment_dir, also by an extraction job and a benchmark job
\* that run at the same time, returns a directory given to no other job.
C20_DirectoriesDistinct ==
    \A a, b \in 1..Len(gd.given) :
        a # b => gd.given[a].exp_dir # gd.given[b].exp_dir

\* C21: a cancellation requested while a job runs is honoured at the next
\* suspension point: after the cancel request the job issues no model call
\* beyond the one that was in flight when the request was made.
C21_NoCallAfterCancel ==
    pl.pc # "off" /\ pl.cancels > 0 => pl.calls = pl.calls_at_cancel

\* C26: run_pipeline applies the compile fallback of the services: when the
\* compile reply cannot be parsed after the one repair attempt, the final
\* rows are the raw accumulated rows of all chunks (as they are, numbered,
\* or filtered and numbered as the services do).
C26_PipelineFallback ==
    (pl.pc \in {"csv", "after"} /\ pl.repaired /\ pl.compiled = None)
    => pl.final_rows \in {pl.all_rows, AddIdentifiers(pl.all_rows),
                          AddIdentifiers(FilterRows(pl.all_rows))}

\* The first ```json fenced block of a text: the object text between the
\* leftmost ```json that opens one and the nearest fence that closes it.
IsBlock(text, a, b) ==
    /\ 1 < a /\ a < b /\ b < Len(text)
    /\ text[a - 1] = "F" /\ text[a] = "{" /\ text[b] = "}"
    /\ ClosesFence(text[b + 1])

HasBlock(text) == \E a, b \in 1..Len(text) : IsBlock(text, a, b)

FirstBlock(text) ==
    LET a == CHOOSE x \in 1..Len(text) :
                /\ \E b \in 1..Len(text) : IsBlock(text, x, b)
                /\ \A y \in 1..(x - 1) : \A b \in 1..Len(text) : ~IsBlock(text, y, b)
        b == CHOOSE x \in 1..Len(text) :
                /\ IsBlock(text, a, x)
                /\ \A y \in 1..(x - 1) : ~IsBlock(text, a, y)
    IN SubSeq(text, a, b)

HasBraces(text) ==
    \E a, b \in 1..Len(text) : a < b /\ text[a] = "{" /\ text[b] = "}"

BraceSubstring(text) ==
    LET a == CHOOSE x \in 1..Len(text) :
                text[x] = "{" /\ \A y \in 1..(x - 1) : text[y] # "{"
        b == CHOOSE x \in 1..Len(text) :
                text[x] = "}" /\ \A y \in (x + 1)..Len(text) : text[y] # "}"
    IN SubSeq(text, a, b)

Parses(text) == json_loads(text) # JSONDecodeError

ChunkOfPage(chunks, num) ==
    CHOOSE k \in 1..Len(chunks) :
        \E i \in 1..Len(chunks[k].pages) : chunks[k].pages[i].page_num = num

\* C23: a page with zero words never closes the current chunk: it is placed
\* in the chunk of the page immediately before it, for every page sequence
\* and word limit.
C23_EmptyPageNoSplit ==
    ck.pc = "done" =>
       \A i \in 2..Len(ck.pages) :
          ck.pages[i].wc = 0 =>
             ChunkOfPage(ck.chunks, i) = ChunkOfPage(ck.chunks, i - 1)

\* The extracted rows a ground truth row may be paired with: not consumed,
\* the same non-empty PCA number, compatible addresses.
Candidates(gt_row, extracted, matched) ==
    { idx \in 1..Len(extracted) :
        /\ idx \notin matched
        /\ extract_pca_number(gt_row.pca) # ""
        /\ extract_pca_number(gt_row.pca) = extract_pca_number(extracted[idx].pca)
        /\ addresses_compatible(gt_row.address, extracted[idx].address) }

BestScore(gt_row, extracted, cands) ==
    CHOOSE b \in 0..10 :
        /\ \E idx \in cands : EffectiveScore(gt_row.address, extracted[idx].address) = b
        /\ \A idx \in cands : EffectiveScore(gt_row.address, extracted[idx].address) <= b

\* C24: calculate_metrics takes the ground truth rows in their order and
\* pairs each with a not yet consumed extracted row that passes both gates
\* and has the highest score among those rows, accepting the pair if and
\* only if that score is at least the threshold; accepted pairs are never
\* revised or released.
C24_GreedyBestMatch ==
    [][(ev.pc = "loop" /\ ev.g <= Len(ev.gt) /\ ev' # ev) =>
         LET gt_row == ev.gt[ev.g]
             cands == Candidates(gt_row, ev.extracted, ev.matched)
             accept == /\ cands # {}
                       /\ BestScore(gt_row, ev.extracted, cands) >= ev.threshold
         IN /\ ev'.g = ev.g + 1
            /\ IsPrefix(ev.matches, ev'.matches)
            /\ ev.matched \subseteq ev'.matched
            /\ IF accept
               THEN /\ Len(ev'.matches) = Len(ev.matches) + 1
                    /\ LET m == ev'.matches[Len(ev'.matches)] IN
                       /\ m.gt_idx = ev.g
                       /\ m.ext_idx \in cands
                       /\ m.score = BestScore(gt_row, ev.extracted, cands)
                       /\ EffectiveScore(gt_row.address,
                                         ev.extracted[m.ext_idx].address) = m.score
                       /\ ev'.matched = ev.matched \cup {m.ext_idx}
               ELSE ev'.matches = ev.matches /\ ev'.matched = ev.matched]_vars

\* The unit numbers an address text is written with (UNIT n, UNITS n, or a
\* range), and whether it is written with any.
WrittenUnits(a) ==
    CASE a.rest \in {"UNIT 1", "UNITS 1"} -> {1}
      [] a.rest \in {"UNIT 2", "UNITS 2"} -> {2}
      [] a.rest = "UNITS 2-3" -> {2, 3}
      [] OTHER -> {}

HasWrittenUnits(a) ==
    a.rest \in {"UNIT 1", "UNIT 2", "UNITS 1", "UNITS 2", "UNITS 2-3",
                "UNITS 5 TO 3"}

\* C25: when both addresses contain unit tokens whose integer sets do not
\* intersect, addresses_compatible is false and the rows are never matched;
\* when either address has no unit token the unit check blocks nothing.
C25_UnitGate ==
    ev.pc = "done" =>
    /\ \A g \in 1..Len(ev.gt) : \A e \in 1..Len(ev.extracted) :
          LET a1 == ev.gt[g].address
              a2 == ev.extracted[e].address
          IN /\ (/\ HasWrittenUnits(a1) /\ HasWrittenUnits(a2)
                 /\ WrittenUnits(a1) \cap WrittenUnits(a2) = {})
                => ~addresses_compatible(a1, a2)
             /\ (~HasWrittenUnits(a1) \/ ~HasWrittenUnits(a2))
                => (addresses_compatible(a1, a2)
                      <=> ~(/\ extract_street_number(a1) # ""
                            /\ extract_street_number(a2) # ""
                            /\ extract_street_number(a1) # extract_street_number(a2)))
    /\ \A m \in 1..Len(ev.matches) :
          LET a1 == ev.gt[ev.matches[m].gt_idx].address
              a2 == ev.extracted[ev.matches[m].ext_idx].address
          IN ~(/\ HasWrittenUnits(a1) /\ HasWrittenUnits(a2)
               /\ WrittenUnits(a1) \cap WrittenUnits(a2) = {})

\* The failures of the file operations of a job: a missing project file, a
\* document that cannot be opened, a ground truth table that cannot be used.
FileErrors ==
    {"ValueError: No ERIS PDF found", "FileDataError: cannot open document",
     "KeyError: 'Address'"}

\* C27: a job on a document with at least one chunk, whose backend answers
\* every call with a parsable object holding a rows list and whose file
\* operations succeed, ends in status completed, never in error: every
\* gateway call of the services is made in a form the function accepts.
C27_GoodJobCompletes ==
    (status.status = "error" /\ status.total_chunks >= 1)
    => status.error \in FileErrors

\* C28: every admitted job terminates: the worker sets the status to
\* completed or error and afterwards releases the running flag, on every
\* exit path, so that the service becomes able to accept a job again.
C28_JobTerminates ==
    /\ [][\A j \in Jobs :
            (Alive(j) /\ ~Alive(j)') =>
               /\ status.status \in {"completed", "error"}
               /\ status.job_id = j
               /\ ~running']_vars
    /\ \A j \in Jobs : Alive(j) ~> ~Alive(j)
    /\ running ~> ~running

\* A job has ended through its exception handler and the flag is released.
C28_Witness ==
    \E j \in Jobs :
        /\ ~Alive(j)
        /\ status.job_id = j
        /\ status.status = "error"
        /\ ~running

\* def is_busy(self): return self._running
is_busy == running

\* C29: in every reachable state of a service, is_busy() is true exactly
\* when the status reported by get_status is running, including the instants
\* between a start call's admission and the creation of the status object
\* and between the worker's final status write and its release of the flag.
C29_BusyIffRunning ==
    is_busy <=> (~IsNone(status) /\ status.status = "running")

\* C30: whenever a service reports status completed, the job's experiment
\* directory already holds final_rows_compiled.json and
\* final_rows_compiled.csv, both written from the same final row list, the
\* reported row count (total_pcas / extracted_pcas) equals the number of
\* final rows, and for a benchmark job the metrics field is set.
C30_CompletedHasArtifacts ==
    (~IsNone(status) /\ status.status = "completed") =>
        /\ status.experiment_dir > 0
        /\ LET dir == fs[status.experiment_dir] IN
             /\ dir.final_json.exists
             /\ dir.csv.exists
             /\ dir.csv.rows = dir.final_json.rows
             /\ status.total_pcas = Len(dir.final_json.rows)
        /\ svc = "benchmark" => status.metrics

====
